---- MODULE Spec2Model ----
(***************************************************************************)
(* A model of rua's load-generation core (framework/lg.go,                 *)
(* framework/stats.go): the configuration defaults, the per-worker request *)
(* loop, the coordinator (Start) with its select loop, drain and merge,    *)
(* and the Stats accumulator; and of the raw client                        *)
(* (framework/client/raw.go): DoStaticRequest read by read, with the       *)
(* response parser computed on the bytes of the receive buffer.            *)
(*                                                                         *)
(* time.Duration values are counted in clock ticks, TicksPerMicro ticks to *)
(* the microsecond, so that Duration.Microseconds() truncates as it does   *)
(* in Go and the constants still fit TLC's integers.                       *)
(***************************************************************************)
EXTENDS Integers, Sequences, FiniteSets, TLC

\* ------------------------------------------------------------------ bounds

\* clock resolution: ticks per microsecond
TicksPerMicro == 2
\* the run clock is advanced tick by tick up to here (jumps to a timer go beyond)
MaxNow == 2
\* requests the workers of a run issue in all
MaxRequests == 3
\* Stats objects of the Stats-only specification, and the requests and the
\* responses they have recorded in all
PoolSize == 3
MaxPoolRequests == 2
MaxPoolResponses == 3
\* len(request.RawBytes)
RequestLen == 3

\* --------------------------------------------------------------- constants

defaultMethod == "GET"
defaultDuration == 1000000 * TicksPerMicro
defaultConnection == 1
defaultTimeout == 60 * 1000000 * TicksPerMicro
defaultMaxResponseSize == 4096

\* ------------------------------------------------------------------ config

\* faulty variant: the duration default is forgotten
setDefaultConfigKeepsDuration(c) ==
  [c EXCEPT
     !.Timeout = IF c.Timeout <= 0 THEN defaultTimeout ELSE @,
     !.Connections = IF c.Connections <= 0 THEN defaultConnection ELSE @,
     !.MaxResponseSize = IF c.MaxResponseSize <= 0 THEN defaultMaxResponseSize ELSE @]

\* setDefaultConfig: requestConfig is a copy of the struct config.RequestConfig,
\* so the default method is stored in the copy and config keeps its Method.
setDefaultConfig(c) ==
  LET requestConfig == c.RequestConfig
      requestConfigLocal ==
        IF requestConfig.Method = ""
        THEN [requestConfig EXCEPT !.Method = defaultMethod]
        ELSE requestConfig
  IN [c EXCEPT
        !.Duration = IF c.Duration <= 0 THEN defaultDuration ELSE @,
        !.Timeout = IF c.Timeout <= 0 THEN defaultTimeout ELSE @,
        !.Connections = IF c.Connections <= 0 THEN defaultConnection ELSE @,
        !.MaxResponseSize = IF c.MaxResponseSize <= 0 THEN defaultMaxResponseSize ELSE @]

\* ------------------------------------------------------------------- Stats

\* time.Duration.Microseconds(): integer division truncating toward zero
Microseconds(d) ==
  IF d >= 0 THEN d \div TicksPerMicro ELSE -((-d) \div TicksPerMicro)

\* a float64 that is the quotient num / den of two integers, den >= 0; den = 0
\* is what a division by zero gives: NaN for 0 / 0, +Inf for num > 0
Float(num, den) == [num |-> num, den |-> den]

newStats(timeout) ==
  LET limit == Microseconds(timeout) + 1
  IN [RequestsSent |-> 0, ResponsesRecv |-> 0, mean |-> Float(0, 1),
      BytesSent |-> 0, BytesRecv |-> 0,
      Latencies |-> [i \in 0..(limit - 1) |-> 0],
      MinLatency |-> limit - 1, MaxLatency |-> 0,
      StatusErrors |-> 0, TimeoutErrors |-> 0, ConnectionErrors |-> 0,
      limit |-> limit]

\* faulty variant: the request is counted twice
recordRequestTwice(s, requestSize) ==
  [s EXCEPT !.RequestsSent = @ + 2, !.BytesSent = @ + 2 * requestSize]

recordRequest(s, requestSize) ==
  [s EXCEPT !.RequestsSent = @ + 1, !.BytesSent = @ + requestSize]

\* faulty variant: the outlier test is off by one (latency > limit)
recordResponseOffByOne(s, latency, response) ==
  IF latency > s.limit
  THEN s
  ELSE [s EXCEPT
          !.ResponsesRecv = @ + 1,
          !.BytesRecv = @ + response.Size,
          !.StatusErrors = IF response.StatusCode > 399 THEN @ + 1 ELSE @,
          !.Latencies[latency] = @ + 1,
          !.MinLatency = IF latency < @ THEN latency ELSE @,
          !.MaxLatency = IF latency > @ THEN latency ELSE @]

\* faulty variant: the status is examined before the latency, a dropped
\* response still counts as a status error
recordResponseStatusFirst(s, latency, response) ==
  IF latency >= s.limit
  THEN [s EXCEPT !.StatusErrors = IF response.StatusCode > 399 THEN @ + 1 ELSE @]
  ELSE [s EXCEPT
          !.ResponsesRecv = @ + 1,
          !.BytesRecv = @ + response.Size,
          !.StatusErrors = IF response.StatusCode > 399 THEN @ + 1 ELSE @,
          !.Latencies[latency] = @ + 1,
          !.MinLatency = IF latency < @ THEN latency ELSE @,
          !.MaxLatency = IF latency > @ THEN latency ELSE @]

recordResponse(s, latency, response) ==
  IF latency >= s.limit
  THEN s
  ELSE [s EXCEPT
          !.ResponsesRecv = @ + 1,
          !.BytesRecv = @ + response.Size,
          !.StatusErrors = IF response.StatusCode > 399 THEN @ + 1 ELSE @,
          !.Latencies[latency] = @ + 1,
          !.MinLatency = IF latency < @ THEN latency ELSE @,
          !.MaxLatency = IF latency > @ THEN latency ELSE @]

max(a, b) == IF a < b THEN b ELSE a
min(a, b) == IF a < b THEN a ELSE b

\* faulty variant: the bin loop stops one short of other.MaxLatency
mergeStatsExclusiveMax(s, other) ==
  [s EXCEPT
     !.RequestsSent = @ + other.RequestsSent,
     !.ResponsesRecv = @ + other.ResponsesRecv,
     !.BytesSent = @ + other.BytesSent,
     !.BytesRecv = @ + other.BytesRecv,
     !.StatusErrors = @ + other.StatusErrors,
     !.TimeoutErrors = @ + other.TimeoutErrors,
     !.ConnectionErrors = @ + other.ConnectionErrors,
     !.MinLatency = min(@, other.MinLatency),
     !.MaxLatency = max(@, other.MaxLatency),
     !.Latencies = [i \in DOMAIN @ |->
                      IF other.MinLatency <= i /\ i < other.MaxLatency
                      THEN @[i] + other.Latencies[i]
                      ELSE @[i]]]

\* faulty variant: the bin loop runs over s's own range, as it was before the merge
mergeStatsOwnRange(s, other) ==
  [s EXCEPT
     !.RequestsSent = @ + other.RequestsSent,
     !.ResponsesRecv = @ + other.ResponsesRecv,
     !.BytesSent = @ + other.BytesSent,
     !.BytesRecv = @ + other.BytesRecv,
     !.StatusErrors = @ + other.StatusErrors,
     !.TimeoutErrors = @ + other.TimeoutErrors,
     !.ConnectionErrors = @ + other.ConnectionErrors,
     !.MinLatency = min(@, other.MinLatency),
     !.MaxLatency = max(@, other.MaxLatency),
     !.Latencies = [i \in DOMAIN @ |->
                      IF s.MinLatency <= i /\ i <= s.MaxLatency
                      THEN @[i] + other.Latencies[i]
                      ELSE @[i]]]

\* s.mergeStats(other); the bins are added over other's [MinLatency, MaxLatency]
mergeStats(s, other) ==
  [s EXCEPT
     !.RequestsSent = @ + other.RequestsSent,
     !.ResponsesRecv = @ + other.ResponsesRecv,
     !.BytesSent = @ + other.BytesSent,
     !.BytesRecv = @ + other.BytesRecv,
     !.StatusErrors = @ + other.StatusErrors,
     !.TimeoutErrors = @ + other.TimeoutErrors,
     !.ConnectionErrors = @ + other.ConnectionErrors,
     !.MinLatency = min(@, other.MinLatency),
     !.MaxLatency = max(@, other.MaxLatency),
     !.Latencies = [i \in DOMAIN @ |->
                      IF other.MinLatency <= i /\ i <= other.MaxLatency
                      THEN @[i] + other.Latencies[i]
                      ELSE @[i]]]

\* --------------------------------------------------------- error messages

\* strings.ToLower on the letters an error text may hold
UpperToLower ==
  [c \in {"A","B","C","D","E","F","G","H","I","J","K","L","M",
          "N","O","P","Q","R","S","T","U","V","W","X","Y","Z"} |->
     CASE c = "A" -> "a" [] c = "B" -> "b" [] c = "C" -> "c" [] c = "D" -> "d"
       [] c = "E" -> "e" [] c = "F" -> "f" [] c = "G" -> "g" [] c = "H" -> "h"
       [] c = "I" -> "i" [] c = "J" -> "j" [] c = "K" -> "k" [] c = "L" -> "l"
       [] c = "M" -> "m" [] c = "N" -> "n" [] c = "O" -> "o" [] c = "P" -> "p"
       [] c = "Q" -> "q" [] c = "R" -> "r" [] c = "S" -> "s" [] c = "T" -> "t"
       [] c = "U" -> "u" [] c = "V" -> "v" [] c = "W" -> "w" [] c = "X" -> "x"
       [] c = "Y" -> "y" [] c = "Z" -> "z"]

ToLower(s) ==
  [i \in 1..Len(s) |-> IF s[i] \in DOMAIN UpperToLower THEN UpperToLower[s[i]] ELSE s[i]]

Contains(s, sub) ==
  \E i \in 0..(Len(s) - Len(sub)) : SubSeq(s, i + 1, i + Len(sub)) = sub

\* the texts of the errors DoStaticRequest returns in the model
ErrTimeoutNet == <<"i","/","o"," ","t","i","m","e","o","u","t">>
ErrTimeoutHttp == <<"C","l","i","e","n","t",".","T","i","m","e","o","u","t">>
ErrEOF == <<"E","O","F">>
ErrReset == <<"c","o","n","n","e","c","t","i","o","n"," ","r","e","s","e","t">>
ErrTexts == {ErrTimeoutNet, ErrTimeoutHttp, ErrEOF, ErrReset}

\* faulty variant: the text is searched as it is, not lowered
isTimeoutErrorCaseSensitive(e) == Contains(e, <<"t","i","m","e","o","u","t">>)

\* strings.Contains(strings.ToLower(err.Error()), "timeout")
isTimeoutError(e) ==
  Contains(ToLower(e), <<"t","i","m","e","o","u","t">>)

\* ------------------------------------------------------------------- bytes

\* the printable ASCII characters, code 32 first (the double quote, the
\* backslash and the backtick, which no text of the model holds, are spelled out)
Printable ==
  <<" ","!","dquote","#","$","%","&","'","(",")","*","+",",","-",".","/",
    "0","1","2","3","4","5","6","7","8","9",":",";","<","=",">","?",
    "@","A","B","C","D","E","F","G","H","I","J","K","L","M","N","O",
    "P","Q","R","S","T","U","V","W","X","Y","Z","[","backslash","]","^","_",
    "backtick","a","b","c","d","e","f","g","h","i","j","k","l","m","n","o",
    "p","q","r","s","t","u","v","w","x","y","z","{","|","}","~">>

\* the byte of a character
Ascii(c) ==
  IF c = "\r" THEN 13
  ELSE IF c = "\n" THEN 10
  ELSE 31 + (CHOOSE i \in 1..Len(Printable) : Printable[i] = c)

\* []byte(text)
Bytes(text) == [i \in 1..Len(text) |-> Ascii(text[i])]

\* sep lies in s at offset i
HasAt(s, sep, i) == \A j \in 1..Len(sep) : s[i + j] = sep[j]

RECURSIVE IndexFrom(_, _, _)
\* the offset of the first sep in s at or after offset i, -1 if there is none
IndexFrom(s, sep, i) ==
  IF i + Len(sep) > Len(s) THEN -1
  ELSE IF HasAt(s, sep, i) THEN i
  ELSE IndexFrom(s, sep, i + 1)

\* bytes.Index(s, sep): the offset of the first sep in s, -1 if there is none
Index(s, sep) == IndexFrom(s, sep, 0)

\* bytes.IndexByte(s, c)
IndexByte(s, c) == Index(s, <<c>>)

\* the Go slice b[lo:hi] of a slice b whose length is Len(b)
Slice(b, lo, hi) == SubSeq(b, lo + 1, hi)

\* lo and hi are in range for b[lo:hi]
InRange(b, lo, hi) == 0 <= lo /\ lo <= hi /\ hi <= Len(b)

\* -------------------------------------------------- raw.go: the parser

bCr == Ascii("\r")
bColon == Ascii(":")
bCrlfCrlf == Bytes(<<"\r","\n","\r","\n">>)
bContentLength == Bytes(<<"C","o","n","t","e","n","t","-","L","e","n","g","t","h">>)

\* faulty variant: the comparison is turned around, the smaller one is returned
intMaxSmaller(x, y) == IF x < y THEN x ELSE y

intMax(x, y) == IF x > y THEN x ELSE y

\* faulty variant: the digits' character codes, '0' not subtracted
parseStatusCodeRaw(b) == b[1] * 100 + b[2] * 10 + b[3]

\* parseStatusCode: three digits, 5328 = 48 * 111
parseStatusCode(b) == b[1] * 100 + b[2] * 10 + b[3] - 5328

RECURSIVE atoiLoop(_, _)
\* the default case of atoi: res = 10*res + int(b[i]) - 48 over the first l bytes
atoiLoop(b, l) == IF l = 0 THEN 0 ELSE 10 * atoiLoop(b, l - 1) + b[l] - 48

atoi(b) ==
  LET l == Len(b)
  IN CASE l = 1 -> b[1] - 48
       [] l = 2 -> b[1] * 10 + b[2] - 528
       [] l = 3 -> b[1] * 100 + b[2] * 10 + b[3] - 5328
       [] l = 4 -> b[1] * 1000 + b[2] * 100 + b[3] * 10 + b[4] - 53328
       [] OTHER -> atoiLoop(b, l)

\* a RawResponse as fillResponse copies it from the user: the scalar fields
\* of the copy are the user's, which nothing writes; rawBytes is shared
RawResponse(rawBytes) ==
  [StatusCode |-> 0, ContentLength |-> 0, rawBytes |-> rawBytes,
   bodyStart |-> 0, lastIndex |-> 0, panicked |-> FALSE]

ResetState(r) == [r EXCEPT !.lastIndex = 0]

\* faulty variant: the cursor moves to the end of what was scanned, no rewind
CanStartParseNoRewind(r, length) ==
  LET i == Index(Slice(r.rawBytes, r.lastIndex, length), bCrlfCrlf)
  IN IF i = -1
     THEN [found |-> FALSE, r |-> [r EXCEPT !.lastIndex = length]]
     ELSE [found |-> TRUE, r |-> [r EXCEPT !.bodyStart = r.lastIndex + i + 4]]

\* CanStartParse: the search over rawBytes[lastIndex:length] and the result
\* with the receiver as the call leaves it
CanStartParse(r, length) ==
  LET i == Index(Slice(r.rawBytes, r.lastIndex, length), bCrlfCrlf)
  IN IF i = -1
     THEN [found |-> FALSE, r |-> [r EXCEPT !.lastIndex = intMax(r.lastIndex - 3, 0)]]
     ELSE [found |-> TRUE, r |-> [r EXCEPT !.bodyStart = r.lastIndex + i + 4]]

RECURSIVE updateContentLengthFromHeaders(_, _)
\* the walk over the header lines b; a slice expression out of range panics
updateContentLengthFromHeaders(r, b) ==
  LET i == IndexByte(b, bCr)
      sep == IndexByte(b, bColon)
  IN IF i = -1
     THEN [r EXCEPT !.ContentLength = 0]
     ELSE IF ~InRange(b, 0, sep) \/ ~InRange(b, i + 2, Len(b))
     THEN [r EXCEPT !.panicked = TRUE]
     ELSE IF Slice(b, 0, sep) = bContentLength
     THEN IF InRange(b, sep + 2, i)
          THEN [r EXCEPT !.ContentLength = atoi(Slice(b, sep + 2, i))]
          ELSE [r EXCEPT !.panicked = TRUE]
     ELSE updateContentLengthFromHeaders(r, Slice(b, i + 2, Len(b)))

\* Parse: the status code from rawBytes[9:12], then the header lines
Parse(r) ==
  LET headerStart == IndexByte(Slice(r.rawBytes, 12, Len(r.rawBytes)), bCr) + 2
      withCode == [r EXCEPT !.StatusCode = parseStatusCode(Slice(r.rawBytes, 9, 12))]
  IN IF Len(r.rawBytes) < 12 \/ ~InRange(r.rawBytes, 12 + headerStart, r.bodyStart - 2)
     THEN [r EXCEPT !.panicked = TRUE]
     ELSE updateContentLengthFromHeaders(
            withCode, Slice(r.rawBytes, 12 + headerStart, r.bodyStart - 2))

IsBodyComplete(r, length) == length - r.bodyStart = r.ContentLength

\* ------------------------------------------------------------------- state

VARIABLES
  cfgIn,              \* the caller's LgConfig as passed to NewLoadGenerator
  config,             \* l.config
  stop,               \* l.stop
  tasks,              \* l.tasks: per task its stats (the response record is
                      \* written and read within one loop iteration)
  wpc,                \* where each generateLoadStatic goroutine stands
  finishChan,         \* signals buffered in finishChan (capacity connections)
  sigChan,            \* signals buffered in sigChan (capacity 1)
  pcStart,            \* where NewLoadGenerator / Start stands
  remaining,          \* Start's remaining
  drained,            \* the drain loop's i
  merged,             \* the merge loop's i
  finalStats,         \* Start's finalStats
  timerAt,            \* when the channel of the pending time.After fires
  start,              \* Start's start timestamp
  actualRunningTime,  \* Start's second result
  now,                \* the clock
  cause,              \* history: which select case ended the wait loop
  pool,               \* Stats objects of the Stats-only specification
  call,               \* history: the last call made on pool
  conn,               \* per worker, whether its net.Conn is open or closed
  rpc,                \* where the raw user's DoStaticRequest stands
  err,                \* the text of the error DoStaticRequest returns
  rawResponse,        \* fillResponse's rawResponse (rawBytes is the user's buffer)
  n,                  \* fillResponse's n, the bytes read so far
  response,           \* task.response, the rua.Response of the raw worker
  wire,               \* bytes the server has sent that no read has returned yet
  deadline,           \* whether a read deadline is set on the raw worker's connection
  serverResp,         \* the response the server answers every request with
  splitAt,            \* history: bytes of CRLFCRLF read before the read that completed it
  written,            \* history: requests written whole to the connection
  respCalls,          \* history: recordResponse calls of the raw worker
  npc,                \* where NewLoadGenerator stands
  upc,                \* where each goroutine of the errgroup stands
  spawned,            \* the construction loop's i
  groupErr,           \* the errgroup's err: the first error returned to it
  ret,                \* what NewLoadGenerator has returned: l and err
  initCalls,          \* history: calls of client.Init
  createCalls         \* history: calls of client.CreateUser

vars == <<cfgIn, config, stop, tasks, wpc, finishChan, sigChan, pcStart,
          remaining, drained, merged, finalStats, timerAt, start,
          actualRunningTime, now, cause, pool, call, conn, rpc, err,
          rawResponse, n, response, wire, deadline, serverResp,
          splitAt, written, respCalls, npc, upc, spawned, groupErr, ret,
          initCalls, createCalls>>

runVars == <<stop, tasks, wpc, finishChan, sigChan, remaining, drained,
             merged, finalStats, timerAt, start, actualRunningTime, now, cause>>
poolVars == <<pool, call>>
rawVars == <<rpc, err, rawResponse, n, response, wire, deadline,
             serverResp, splitAt, written, respCalls>>
buildVars == <<npc, upc, spawned, groupErr, ret, initCalls, createCalls>>

NoStats == [limit |-> 0]
NoCall == [op |-> "none"]
NoResponse == [code |-> 0]

\* the raw user's variables while no raw user is modelled
NoRaw ==
  /\ rpc = "out"
  /\ err = <<>>
  /\ rawResponse = RawResponse(<<>>)
  /\ n = 0
  /\ response = [StatusCode |-> 0, Size |-> 0]
  /\ wire = <<>>
  /\ deadline = FALSE
  /\ serverResp = NoResponse
  /\ splitAt = 0
  /\ written = 0
  /\ respCalls = 0

\* a nil error
NoErr == <<>>

\* NewLoadGenerator's variables while no construction is modelled
NoBuild ==
  /\ npc = "none"
  /\ upc = <<>>
  /\ spawned = 0
  /\ groupErr = NoErr
  /\ ret = [l |-> "none", err |-> NoErr]
  /\ initCalls = 0
  /\ createCalls = 0

\* NewLoadGenerator's variables after a construction of k users with no error
Built(k) ==
  /\ npc = "returned"
  /\ upc = [w \in 1..k |-> "done"]
  /\ spawned = k
  /\ groupErr = NoErr
  /\ ret = [l |-> "generator", err |-> NoErr]
  /\ initCalls = 1
  /\ createCalls = k

LgConfig(methods, durations, connections, timeouts, sizes) ==
  [RequestConfig : [Method : methods], Duration : durations,
   Connections : connections, Timeout : timeouts, MaxResponseSize : sizes]

\* the configurations a run is started with: a missing (zero) or a short
\* duration, a missing connection count or two connections, and a timeout of
\* a few ticks (the histogram has one bin per microsecond of it)
RunConfigs == LgConfig({"GET"}, {0, 2}, {0, 2}, {5}, {64})

\* the responses a server may answer with
StatusCodes == {200, 400}
ResponseSizes == {62}
Responses == [StatusCode : StatusCodes, Size : ResponseSizes]

\* latency := (tv.Nano() - prev) / 1e3 of a clock that does not step back
LatencyInputs(s) == 0..s.limit

Workers == 1..config.Connections

RECURSIVE sentUpTo(_)
sentUpTo(k) == IF k = 0 THEN 0 ELSE sentUpTo(k - 1) + tasks[k].stats.RequestsSent
\* the requests recorded by all workers so far
TotalSent == sentUpTo(config.Connections)

\* the state NewLoadGenerator returns: defaults applied, one task per connection
Constructed(c) ==
  /\ cfgIn = c
  /\ config = setDefaultConfig(c)
  /\ stop = 0
  /\ tasks = [w \in 1..setDefaultConfig(c).Connections |->
                [stats |-> newStats(setDefaultConfig(c).Timeout)]]
  /\ wpc = [w \in 1..setDefaultConfig(c).Connections |-> "idle"]
  /\ conn = [w \in 1..setDefaultConfig(c).Connections |-> "open"]
  /\ Built(setDefaultConfig(c).Connections)
  /\ finishChan = 0
  /\ sigChan = 0
  /\ pcStart = "ready"
  /\ remaining = 0
  /\ drained = 0
  /\ merged = 0
  /\ finalStats = NoStats
  /\ timerAt = 0
  /\ start = 0
  /\ actualRunningTime = 0
  /\ now = 0
  /\ cause = "none"

Init ==
  /\ \E c \in RunConfigs : Constructed(c)
  /\ pool = <<>>
  /\ call = NoCall
  /\ NoRaw

\* ------------------------------------------------- generateLoadStatic (worker)

\* the workers that have passed the loop condition and not yet recorded
\* their request
Checked == {v \in Workers : wpc[v] = "checked"}

\* faulty variant: the loaded value is taken the wrong way round
loadStopNegated == 1 - stop

\* atomic.LoadInt32(&l.stop)
loadStop == stop

\* for atomic.LoadInt32(&l.stop) == 0 {: the flag is loaded and found clear
WorkerCheck(w) ==
  /\ wpc[w] = "top"
  /\ loadStop = 0
  /\ TotalSent + Cardinality(Checked) < MaxRequests
  /\ wpc' = [wpc EXCEPT ![w] = "checked"]
  /\ UNCHANGED <<cfgIn, config, stop, tasks, finishChan, sigChan, pcStart,
                 remaining, drained, merged, finalStats, timerAt, start,
                 actualRunningTime, now, cause, pool, call, conn, rawVars, buildVars>>

\* stats.recordRequest(requestLen); instance.DoStaticRequest(response) is called
WorkerRequest(w) ==
  /\ wpc[w] = "checked"
  /\ tasks' = [tasks EXCEPT ![w].stats = recordRequest(@, RequestLen)]
  /\ wpc' = [wpc EXCEPT ![w] = "inflight"]
  /\ UNCHANGED <<cfgIn, config, stop, finishChan, sigChan, pcStart, remaining,
                 drained, merged, finalStats, timerAt, start, actualRunningTime,
                 now, cause, pool, call, conn, rawVars, buildVars>>

\* the loop condition fails: the stop flag is set
WorkerSeesStop(w) ==
  /\ wpc[w] = "top"
  /\ loadStop # 0
  /\ wpc' = [wpc EXCEPT ![w] = "exit"]
  /\ UNCHANGED <<cfgIn, config, stop, tasks, finishChan, sigChan, pcStart,
                 remaining, drained, merged, finalStats, timerAt, start,
                 actualRunningTime, now, cause, pool, call, conn, rawVars, buildVars>>

\* DoStaticRequest returned nil: latency is measured and the response recorded
WorkerResponse(w) ==
  /\ wpc[w] = "inflight"
  /\ \E r \in Responses, latency \in LatencyInputs(tasks[w].stats) :
       tasks' = [tasks EXCEPT ![w].stats = recordResponse(@, latency, r)]
  /\ wpc' = [wpc EXCEPT ![w] = "top"]
  /\ UNCHANGED <<cfgIn, config, stop, finishChan, sigChan, pcStart, remaining,
                 drained, merged, finalStats, timerAt, start, actualRunningTime,
                 now, cause, pool, call, conn, rawVars, buildVars>>

\* faulty variant: the text is not examined, every error is a connection error
countErrorAsConnection(s, e) == [s EXCEPT !.ConnectionErrors = @ + 1]

\* faulty variant: the else is missing, a timeout counts as a connection error too
countErrorBoth(s, e) ==
  IF isTimeoutError(e)
  THEN [s EXCEPT !.TimeoutErrors = @ + 1, !.ConnectionErrors = @ + 1]
  ELSE [s EXCEPT !.ConnectionErrors = @ + 1]

\* the error branch of the loop body: one counter, then break
countError(s, e) ==
  IF isTimeoutError(e)
  THEN [s EXCEPT !.TimeoutErrors = @ + 1]
  ELSE [s EXCEPT !.ConnectionErrors = @ + 1]

\* faulty variant: the error branch returns from the goroutine instead of breaking
errorReturns == "done"

\* faulty variant: continue instead of break, the loop goes on after an error
errorContinues == "top"

\* break: the goroutine goes on to the send on finishChan after the loop
errorBreak == "exit"

\* DoStaticRequest returned an error; the raw user has closed its connection
\* on the way out (raw.go: u.conn.Close() before each return err)
WorkerError(w) ==
  /\ wpc[w] = "inflight"
  /\ \E e \in ErrTexts :
       tasks' = [tasks EXCEPT ![w].stats = countError(@, e)]
  /\ conn' = [conn EXCEPT ![w] = "closed"]
  /\ wpc' = [wpc EXCEPT ![w] = errorBreak]
  /\ UNCHANGED <<cfgIn, config, stop, finishChan, sigChan, pcStart, remaining,
                 drained, merged, finalStats, timerAt, start, actualRunningTime,
                 now, cause, pool, call, rawVars, buildVars>>

\* faulty variant: the channel buffers one signal less than there are workers
finishCapShort == config.Connections - 1

\* finishChan := make(chan struct{}, connections): the capacity of the channel
finishCap == config.Connections

\* finishChan <- struct{}{}: the send goes through when the buffer has room
WorkerSignal(w) ==
  /\ wpc[w] = "exit"
  /\ finishChan < finishCap
  /\ finishChan' = finishChan + 1
  /\ wpc' = [wpc EXCEPT ![w] = "done"]
  /\ UNCHANGED <<cfgIn, config, stop, tasks, sigChan, pcStart, remaining,
                 drained, merged, finalStats, timerAt, start, actualRunningTime,
                 now, cause, pool, call, conn, rawVars, buildVars>>

\* ------------------------------------------------------------ Start, Stop

\* Start up to its wait loop: signal.Notify, the channels, start := time.Now(),
\* the goroutines, remaining, and the first select with its time.After
StartSpawn ==
  /\ pcStart = "ready"
  /\ pcStart' = "select"
  /\ start' = now
  /\ wpc' = [w \in Workers |-> "top"]
  /\ remaining' = config.Connections
  /\ timerAt' = now + config.Duration
  /\ UNCHANGED <<cfgIn, config, stop, tasks, finishChan, sigChan, drained,
                 merged, finalStats, actualRunningTime, now, cause, pool, call, conn, rawVars, buildVars>>

\* l.Stop()
Stop == stop' = 1

\* the wait loop is left: l.Stop(), then the drain loop starts
LeaveWaitLoop(why) ==
  /\ Stop
  /\ cause' = why
  /\ pcStart' = "drain"
  /\ drained' = 0
  /\ UNCHANGED timerAt

\* the next iteration of the wait loop: select evaluates time.After(Duration) anew
NextSelect(dur) ==
  /\ timerAt' = now + dur
  /\ UNCHANGED <<stop, cause, pcStart, drained>>

\* faulty variant: any completion signal ends the wait loop
anyFinished(rem) == TRUE

\* if remaining == 0 { shouldContinue = false }
allFinished(rem) == rem = 0

\* case <-finishChan
SelectFinish ==
  /\ pcStart = "select"
  /\ finishChan > 0
  /\ finishChan' = finishChan - 1
  /\ remaining' = remaining - 1
  /\ IF allFinished(remaining - 1)
     THEN LeaveWaitLoop("finished")
     ELSE NextSelect(config.Duration)
  /\ UNCHANGED <<cfgIn, config, tasks, wpc, sigChan, merged, finalStats,
                 start, actualRunningTime, now, pool, call, conn, rawVars, buildVars>>

\* case <-sigChan
SelectSignal ==
  /\ pcStart = "select"
  /\ sigChan > 0
  /\ sigChan' = sigChan - 1
  /\ LeaveWaitLoop("signal")
  /\ UNCHANGED <<cfgIn, config, tasks, wpc, finishChan, remaining, merged,
                 finalStats, start, actualRunningTime, now, pool, call, conn, rawVars, buildVars>>

\* case <-time.After(l.config.Duration)
SelectTimer ==
  /\ pcStart = "select"
  /\ now >= timerAt
  /\ LeaveWaitLoop("timer")
  /\ UNCHANGED <<cfgIn, config, tasks, wpc, finishChan, sigChan, remaining,
                 merged, finalStats, start, actualRunningTime, now, pool, call, conn, rawVars, buildVars>>

\* faulty variant: the drain loop stops one signal short
drainCountShort == remaining - 1

\* the signals the drain loop receives before Start goes on
drainCount == remaining

\* for i := 0; i < remaining; i++ { <-finishChan }
Drain ==
  /\ pcStart = "drain"
  /\ drained < drainCount
  /\ finishChan > 0
  /\ finishChan' = finishChan - 1
  /\ drained' = drained + 1
  /\ UNCHANGED <<cfgIn, config, stop, tasks, wpc, sigChan, pcStart, remaining,
                 merged, finalStats, timerAt, start, actualRunningTime, now,
                 cause, pool, call, conn, rawVars, buildVars>>

\* actualRunningTime = time.Now().Sub(start); finalStats = newStats(Timeout)
DrainDone ==
  /\ pcStart = "drain"
  /\ drained >= drainCount
  /\ actualRunningTime' = now - start
  /\ finalStats' = newStats(config.Timeout)
  /\ merged' = 0
  /\ pcStart' = "merge"
  /\ UNCHANGED <<cfgIn, config, stop, tasks, wpc, finishChan, sigChan,
                 remaining, drained, timerAt, start, now, cause, pool, call, conn, rawVars, buildVars>>

\* finalStats.mergeStats(l.tasks[i].stats)
Merge ==
  /\ pcStart = "merge"
  /\ merged < config.Connections
  /\ finalStats' = mergeStats(finalStats, tasks[merged + 1].stats)
  /\ merged' = merged + 1
  /\ UNCHANGED <<cfgIn, config, stop, tasks, wpc, finishChan, sigChan, pcStart,
                 remaining, drained, timerAt, start, actualRunningTime, now,
                 cause, pool, call, conn, rawVars, buildVars>>

\* return finalStats, actualRunningTime
Return ==
  /\ pcStart = "merge"
  /\ merged >= config.Connections
  /\ pcStart' = "returned"
  /\ UNCHANGED <<cfgIn, config, stop, tasks, wpc, finishChan, sigChan,
                 remaining, drained, merged, finalStats, timerAt, start,
                 actualRunningTime, now, cause, pool, call, conn, rawVars, buildVars>>

\* ------------------------------------------------------------- environment

\* os.Interrupt is delivered to sigChan; a signal finding it full is dropped,
\* and one arriving after the wait loop is never read
Interrupt ==
  /\ pcStart = "select"
  /\ sigChan = 0
  /\ sigChan' = 1
  /\ UNCHANGED <<cfgIn, config, stop, tasks, wpc, finishChan, pcStart,
                 remaining, drained, merged, finalStats, timerAt, start,
                 actualRunningTime, now, cause, pool, call, conn, rawVars, buildVars>>

\* a fired timer is served before the clock moves on
TimerDue == pcStart = "select" /\ now >= timerAt

\* the clock advances by one tick
Tick ==
  /\ pcStart \in {"select", "drain"}
  /\ ~TimerDue
  /\ now < MaxNow
  /\ now' = now + 1
  /\ UNCHANGED <<cfgIn, config, stop, tasks, wpc, finishChan, sigChan, pcStart,
                 remaining, drained, merged, finalStats, timerAt, start,
                 actualRunningTime, cause, pool, call, conn, rawVars, buildVars>>

\* the clock advances to the instant the pending timer fires
TickToTimer ==
  /\ pcStart = "select"
  /\ now < timerAt
  /\ now' = timerAt
  /\ UNCHANGED <<cfgIn, config, stop, tasks, wpc, finishChan, sigChan, pcStart,
                 remaining, drained, merged, finalStats, timerAt, start,
                 actualRunningTime, cause, pool, call, conn, rawVars, buildVars>>

\* ----------------------------------------------------------- specification

Next ==
  \/ StartSpawn
  \/ \E w \in Workers : WorkerCheck(w)
  \/ \E w \in Workers : WorkerRequest(w)
  \/ \E w \in Workers : WorkerSeesStop(w)
  \/ \E w \in Workers : WorkerResponse(w)
  \/ \E w \in Workers : WorkerError(w)
  \/ \E w \in Workers : WorkerSignal(w)
  \/ SelectFinish
  \/ SelectSignal
  \/ SelectTimer
  \/ Drain
  \/ DrainDone
  \/ Merge
  \/ Return
  \/ Interrupt
  \/ Tick
  \/ TickToTimer

Spec == Init /\ [][Next]_vars

\* ------------------------------------------- the default-application step

\* what a caller may pass: every field missing, negative or set
ConfigInputs ==
  LgConfig({"", "GET", "POST"}, {-1, 0, 2}, {-1, 0, 1, 2}, {-1, 0, 5}, {-1, 0, 64})

\* the run's variables while no run is modelled
NoRun ==
  /\ stop = 0
  /\ tasks = <<>>
  /\ wpc = <<>>
  /\ conn = <<>>
  /\ finishChan = 0
  /\ sigChan = 0
  /\ remaining = 0
  /\ drained = 0
  /\ merged = 0
  /\ finalStats = NoStats
  /\ timerAt = 0
  /\ start = 0
  /\ actualRunningTime = 0
  /\ now = 0
  /\ cause = "none"

ConfigInit ==
  /\ \E c \in ConfigInputs : cfgIn = c /\ config = c
  /\ pcStart = "new"
  /\ NoRun
  /\ pool = <<>>
  /\ call = NoCall
  /\ NoRaw
  /\ NoBuild

\* NewLoadGenerator: setDefaultConfig(config)
ApplyDefaults ==
  /\ pcStart = "new"
  /\ config' = setDefaultConfig(config)
  /\ pcStart' = "defaulted"
  /\ UNCHANGED <<cfgIn, runVars, poolVars, conn, rawVars, buildVars>>

ConfigNext == ApplyDefaults

ConfigSpec == ConfigInit /\ [][ConfigNext]_vars

\* ------------------------------------------------- Stats, called in any order

\* the timeouts the Stats of the pool are built with
StatsTimeouts == {2, 5}

StatsInit ==
  /\ \E t \in StatsTimeouts :
       /\ pool = [i \in 1..PoolSize |-> newStats(t)]
       /\ cfgIn = [RequestConfig |-> [Method |-> "GET"], Duration |-> 2,
                   Connections |-> 1, Timeout |-> t, MaxResponseSize |-> 64]
       /\ config = cfgIn
  /\ call = NoCall
  /\ pcStart = "stats"
  /\ NoRun
  /\ NoRaw
  /\ NoBuild

RECURSIVE poolSentUpTo(_), poolRecvUpTo(_)
poolSentUpTo(k) == IF k = 0 THEN 0 ELSE poolSentUpTo(k - 1) + pool[k].RequestsSent
poolRecvUpTo(k) == IF k = 0 THEN 0 ELSE poolRecvUpTo(k - 1) + pool[k].ResponsesRecv
\* the requests and the responses recorded in the pool
PoolSent == poolSentUpTo(PoolSize)
PoolRecv == poolRecvUpTo(PoolSize)

PoolRecordRequest(i) ==
  /\ PoolSent < MaxPoolRequests
  /\ pool' = [pool EXCEPT ![i] = recordRequest(@, RequestLen)]
  /\ call' = [op |-> "recordRequest", s |-> i]
  /\ UNCHANGED <<cfgIn, config, pcStart, runVars, conn, rawVars, buildVars>>

PoolRecordResponse(i) ==
  /\ PoolRecv < MaxPoolResponses
  /\ \E r \in Responses, latency \in LatencyInputs(pool[i]) :
       /\ pool' = [pool EXCEPT ![i] = recordResponse(@, latency, r)]
       /\ call' = [op |-> "recordResponse", s |-> i, latency |-> latency]
  /\ UNCHANGED <<cfgIn, config, pcStart, runVars, conn, rawVars, buildVars>>

\* pool[i].mergeStats(pool[j]); i = j merges a Stats into itself
PoolMerge(i, j) ==
  /\ PoolSent + pool[j].RequestsSent <= MaxPoolRequests
  /\ PoolRecv + pool[j].ResponsesRecv <= MaxPoolResponses
  /\ pool' = [pool EXCEPT ![i] = mergeStats(@, pool[j])]
  /\ call' = [op |-> "mergeStats", s |-> i, other |-> j]
  /\ UNCHANGED <<cfgIn, config, pcStart, runVars, conn, rawVars, buildVars>>

StatsNext ==
  \/ \E i \in 1..PoolSize : PoolRecordRequest(i)
  \/ \E i \in 1..PoolSize : PoolRecordResponse(i)
  \/ \E i \in 1..PoolSize, j \in 1..PoolSize : PoolMerge(i, j)

StatsSpec == StatsInit /\ [][StatsNext]_vars

\* ------------------------------------------------------ the server's answers

\* config.MaxResponseSize of the raw runs: the capacity of the receive buffer
BufSize == 46
\* a buffer that just holds the header section of a response with a long body
TightBufSize == 39
\* the bytes the server of a raw run sends in all
MaxWireBytes == 100

CRLF == Bytes(<<"\r","\n">>)

RECURSIVE DecimalBytes(_)
\* the decimal digits of k >= 0
DecimalBytes(k) ==
  IF k < 10 THEN <<48 + k>> ELSE DecimalBytes(k \div 10) \o <<48 + (k % 10)>>

ReasonPhrase(code) ==
  CASE code = 200 -> Bytes(<<"O","K">>)
    [] code = 204 -> Bytes(<<"N","o"," ","C","o","n","t","e","n","t">>)
    [] code = 404 -> Bytes(<<"N","o","t"," ","F","o","u","n","d">>)

StatusLine(code) ==
  Bytes(<<"H","T","T","P","/","1",".","1"," ">>) \o DecimalBytes(code)
    \o Bytes(<<" ">>) \o ReasonPhrase(code) \o CRLF

\* the header line that announces a body of len bytes: as the parser expects
\* it, in lower case, without the space after the colon, or not at all
LengthHeader(form, len) ==
  CASE form = "exact" ->
         bContentLength \o Bytes(<<":"," ">>) \o DecimalBytes(len) \o CRLF
    [] form = "lower" ->
         Bytes(<<"c","o","n","t","e","n","t","-","l","e","n","g","t","h",":"," ">>)
           \o DecimalBytes(len) \o CRLF
    [] form = "nospace" ->
         bContentLength \o Bytes(<<":">>) \o DecimalBytes(len) \o CRLF
    [] form = "none" -> <<>>

RECURSIVE Repeat(_, _)
Repeat(b, k) == IF k = 0 THEN <<>> ELSE b \o Repeat(b, k - 1)

\* a header line the parser has no use for
OtherHeader == Bytes(<<"A",":"," ","b">>) \o CRLF

\* the bytes of one response
OnWire(r) ==
  StatusLine(r.code) \o Repeat(OtherHeader, r.others)
    \o LengthHeader(r.form, r.bodyLen) \o CRLF \o Repeat(Bytes(<<"x">>), r.bodyLen)

\* the header section of a response: all of it up to and with CRLFCRLF
HeaderLen(r) == Len(OnWire(r)) - r.bodyLen

\* what the server of a raw run answers each request with: short responses
\* with and without a body, a status error, a header line before the length,
\* a header section longer than the buffer, and responses whose length header
\* the parser does not read
ServerResponses ==
  { [code |-> 200, form |-> "exact", others |-> 0, bodyLen |-> 3],
    [code |-> 404, form |-> "exact", others |-> 0, bodyLen |-> 0],
    [code |-> 200, form |-> "exact", others |-> 1, bodyLen |-> 0],
    [code |-> 200, form |-> "exact", others |-> 2, bodyLen |-> 3],
    [code |-> 200, form |-> "lower", others |-> 0, bodyLen |-> 3],
    [code |-> 200, form |-> "nospace", others |-> 0, bodyLen |-> 3],
    [code |-> 200, form |-> "none", others |-> 0, bodyLen |-> 3],
    [code |-> 204, form |-> "none", others |-> 0, bodyLen |-> 0] }

\* a response whose body is longer than the tight buffer
LongBody == [code |-> 200, form |-> "exact", others |-> 0, bodyLen |-> TightBufSize + 1]

\* the raw runs: the buffer's capacity and the server's response
RawRuns ==
  {[size |-> BufSize, resp |-> r] : r \in ServerResponses}
    \cup {[size |-> TightBufSize, resp |-> LongBody]}

\* --------------------------------------- raw.go: DoStaticRequest, step by step

\* the run of the raw user has one connection, the worker of task 1
RawWorker == 1

\* the characters of a text given in bytes
Chars(b) == [i \in 1..Len(b) |-> Printable[b[i] - 31]]

\* the error of an operation on a closed connection
ErrClosed ==
  <<"u","s","e"," ","o","f"," ","c","l","o","s","e","d"," ",
    "n","e","t","w","o","r","k"," ","c","o","n","n","e","c","t","i","o","n">>

\* fmt.Sprintf("Receiver buffer full, didn't encounter CRLFCRLF after %d bytes", len(b))
ErrBufferFull(size) ==
  <<"R","e","c","e","i","v","e","r"," ","b","u","f","f","e","r"," ","f","u","l","l",","," ",
    "d","i","d","n","'","t"," ","e","n","c","o","u","n","t","e","r"," ",
    "C","R","L","F","C","R","L","F"," ","a","f","t","e","r"," ">>
    \o Chars(DecimalBytes(size)) \o <<" ","b","y","t","e","s">>

\* u.conn.Close(); return err: what had arrived unread is dropped with the
\* connection, and fillResponse's frame (n, the copy of rawResponse) is gone
ReturnErr(e, rawBytes) ==
  /\ conn' = [conn EXCEPT ![RawWorker] = "closed"]
  /\ wire' = <<>>
  /\ n' = 0
  /\ rawResponse' = RawResponse(rawBytes)
  /\ splitAt' = 0
  /\ err' = e
  /\ rpc' = "err"

\* deadline := time.Now().Add(u.timeout); err = u.conn.SetReadDeadline(deadline)
RawSetReadDeadline ==
  /\ wpc[RawWorker] = "inflight"
  /\ rpc = "out"
  /\ \/ /\ deadline' = TRUE
        /\ rpc' = "write"
        /\ UNCHANGED <<err, conn, wire, n, rawResponse, splitAt>>
     \/ /\ ReturnErr(ErrClosed, rawResponse.rawBytes)
        /\ UNCHANGED deadline
  /\ UNCHANGED <<cfgIn, config, pcStart, runVars, poolVars, buildVars, response,
                 serverResp, written, respCalls>>

\* _, err = u.write(u.requestBytes): the whole request is written, which the
\* server answers, or the write fails with whatever error the connection gives
RawWrite ==
  /\ rpc = "write"
  /\ \/ /\ written' = written + 1
        /\ wire' = wire \o OnWire(serverResp)
        /\ rpc' = "read"
        /\ UNCHANGED <<err, conn, n, rawResponse, splitAt>>
     \/ /\ \E e \in ErrTexts : ReturnErr(e, rawResponse.rawBytes)
        /\ UNCHANGED written
  /\ UNCHANGED <<cfgIn, config, pcStart, runVars, poolVars, buildVars, response, deadline,
                 serverResp, respCalls>>

\* copy(b[off:], data): the buffer after a read that returned data
Store(b, off, data) ==
  SubSeq(b, 1, off) \o data \o SubSeq(b, off + Len(data) + 1, Len(b))

\* faulty variant: the header loop without its buffer-full test
AfterReadNoFullTest(r, length, inBody) ==
  IF inBody
  THEN [r |-> r, to |-> IF IsBodyComplete(r, length) THEN "ok" ELSE "body"]
  ELSE LET c == CanStartParse(r, length)
           p == Parse(c.r)
       IN IF ~c.found
          THEN [r |-> c.r, to |-> "headers"]
          ELSE IF p.panicked
          THEN [r |-> p, to |-> "panic"]
          ELSE [r |-> p, to |-> IF IsBodyComplete(p, length) THEN "ok" ELSE "body"]

\* fillResponse from a read that has returned up to its next read or its
\* return: the header loop's test and its buffer-full test, Parse, and the
\* body loop's test
AfterRead(r, length, inBody) ==
  IF inBody
  THEN [r |-> r, to |-> IF IsBodyComplete(r, length) THEN "ok" ELSE "body"]
  ELSE LET c == CanStartParse(r, length)
           p == Parse(c.r)
       IN IF ~c.found
          THEN [r |-> c.r,
                to |-> IF length = Len(r.rawBytes) THEN "full" ELSE "headers"]
          ELSE IF p.panicked
          THEN [r |-> p, to |-> "panic"]
          ELSE [r |-> p, to |-> IF IsBodyComplete(p, length) THEN "ok" ELSE "body"]

\* the bytes of the terminator that were in the buffer before the read that
\* completed it (0 when it came within one read)
SplitOf(r, before) ==
  LET inside == before - (r.bodyStart - 4)
  IN IF inside \in 1..3 THEN inside ELSE 0

\* one u.read of fillResponse: the first one (read(b)), one of the header loop
\* (read(b[n:])) or one of the body loop (read(b)). The read returns any
\* number of the bytes that have arrived, as many as the slice takes; or the
\* deadline passes before it returns; or the server has closed the connection
\* after the bytes read so far.
RawRead ==
  /\ rpc \in {"read", "headers", "body"}
  /\ LET b == rawResponse.rawBytes
         off == IF rpc = "headers" THEN n ELSE 0
     IN \/ /\ deadline
           /\ ReturnErr(ErrTimeoutNet, b)
           /\ UNCHANGED response
        \/ /\ ReturnErr(ErrEOF, b)
           /\ UNCHANGED response
        \/ /\ wire # <<>>
           /\ \E k \in 1..min(Len(b) - off, Len(wire)) :
              \E stored \in {Store(b, off, SubSeq(wire, 1, k))} :
              \E a \in {AfterRead(IF rpc = "read"
                                   THEN ResetState(RawResponse(stored))
                                   ELSE [rawResponse EXCEPT !.rawBytes = stored],
                                   IF rpc = "read" THEN k ELSE n + k,
                                   rpc = "body")} :
                LET length == IF rpc = "read" THEN k ELSE n + k
                    split == IF rpc = "body" THEN splitAt
                             ELSE IF a.to \in {"ok", "body"}
                             THEN SplitOf(a.r, IF rpc = "read" THEN 0 ELSE n)
                             ELSE 0
                IN /\ CASE a.to = "ok" ->
                             /\ response' = [StatusCode |-> a.r.StatusCode, Size |-> length]
                             /\ rpc' = "ok"
                             /\ wire' = SubSeq(wire, k + 1, Len(wire))
                             /\ n' = length
                             /\ rawResponse' = a.r
                             /\ splitAt' = split
                             /\ UNCHANGED <<err, conn>>
                        [] a.to = "full" ->
                             /\ ReturnErr(ErrBufferFull(Len(b)), stored)
                             /\ UNCHANGED response
                        [] OTHER ->
                             /\ rpc' = a.to
                             /\ wire' = SubSeq(wire, k + 1, Len(wire))
                             /\ n' = length
                             /\ rawResponse' = a.r
                             /\ splitAt' = split
                             /\ UNCHANGED <<response, err, conn>>
  /\ UNCHANGED <<cfgIn, config, pcStart, runVars, poolVars, buildVars, deadline,
                 serverResp, written, respCalls>>

\* lg.go: err == nil; the latency is measured and the response recorded
\* (DoStaticRequest has returned: fillResponse's frame is gone)
RawWorkerResponse ==
  /\ wpc[RawWorker] = "inflight"
  /\ rpc = "ok"
  /\ \E latency \in LatencyInputs(tasks[RawWorker].stats) :
       tasks' = [tasks EXCEPT ![RawWorker].stats = recordResponse(@, latency, response)]
  /\ respCalls' = respCalls + 1
  /\ wpc' = [wpc EXCEPT ![RawWorker] = "top"]
  /\ rpc' = "out"
  /\ n' = 0
  /\ rawResponse' = RawResponse(rawResponse.rawBytes)
  /\ splitAt' = 0
  /\ UNCHANGED <<cfgIn, config, stop, finishChan, sigChan, pcStart, remaining,
                 drained, merged, finalStats, timerAt, start, actualRunningTime,
                 now, cause, pool, call, conn, err, response, wire, deadline,
                 serverResp, written, buildVars>>

\* lg.go: err != nil; one counter by the error's text, then break
RawWorkerError ==
  /\ wpc[RawWorker] = "inflight"
  /\ rpc = "err"
  /\ tasks' = [tasks EXCEPT ![RawWorker].stats = countError(@, err)]
  /\ wpc' = [wpc EXCEPT ![RawWorker] = errorBreak]
  /\ rpc' = "out"
  /\ UNCHANGED <<cfgIn, config, stop, finishChan, sigChan, pcStart, remaining,
                 drained, merged, finalStats, timerAt, start, actualRunningTime,
                 now, cause, pool, call, conn, err, rawResponse, n, response,
                 wire, deadline, serverResp, splitAt, written, respCalls,
                 buildVars>>

\* l.Stop() is called, by Start when its wait loop ends or by any holder of
\* the generator
StopCalled ==
  /\ pcStart = "select"
  /\ stop = 0
  /\ Stop
  /\ UNCHANGED <<cfgIn, config, tasks, wpc, finishChan, sigChan, pcStart,
                 remaining, drained, merged, finalStats, timerAt, start,
                 actualRunningTime, now, cause, pool, call, conn, rawVars, buildVars>>

\* the configurations of the raw runs: one connection, a timeout of one tick
\* (a histogram of one bin), a buffer of either capacity
RawConfigs == LgConfig({"GET"}, {2}, {1}, {1}, {BufSize, TightBufSize})

\* NewLoadGenerator has returned; CreateUser has dialled and allocated the
\* buffer: make([]byte, c.maxResponseSize, c.maxResponseSize)
RawInit ==
  /\ \E c \in RawConfigs, run \in RawRuns :
       /\ c.MaxResponseSize = run.size
       /\ Constructed(c)
       /\ serverResp = run.resp
  /\ pool = <<>>
  /\ call = NoCall
  /\ rpc = "out"
  /\ err = <<>>
  /\ rawResponse = RawResponse([i \in 1..config.MaxResponseSize |-> 0])
  /\ n = 0
  /\ response = [StatusCode |-> 0, Size |-> 0]
  /\ wire = <<>>
  /\ deadline = FALSE
  /\ splitAt = 0
  /\ written = 0
  /\ respCalls = 0

\* the server has a whole answer left to send
ServerAnswers == (written + 1) * Len(OnWire(serverResp)) <= MaxWireBytes

RawNext ==
  \/ StartSpawn
  \/ WorkerCheck(RawWorker) /\ ServerAnswers
  \/ WorkerRequest(RawWorker)
  \/ WorkerSeesStop(RawWorker)
  \/ WorkerSignal(RawWorker)
  \/ RawSetReadDeadline
  \/ RawWrite
  \/ RawRead
  \/ RawWorkerResponse
  \/ RawWorkerError
  \/ StopCalled

RawSpec == RawInit /\ [][RawNext]_vars

\* ---------------------------------------------------- NewLoadGenerator

\* the configurations a generator is constructed from: a missing connection
\* count, two or three connections
BuildConfigs == LgConfig({"GET"}, {2}, {0, 2, 3}, {5}, {64})

\* a task slot as make([]task, n, n) leaves it: user, response and stats nil
NoTask == [stats |-> NoStats]

\* the goroutines of the errgroup
Users == 1..Len(upc)

\* return nil, err
ReturnNil(e) ==
  /\ ret' = [l |-> "nil", err |-> e]
  /\ npc' = "returned"

\* setDefaultConfig(config) and getRequestBytes, which may fail
NewRequest ==
  /\ npc = "new"
  /\ config' = setDefaultConfig(config)
  /\ \/ npc' = "init" /\ UNCHANGED ret
     \/ \E e \in ErrTexts : ReturnNil(e)
  /\ UNCHANGED <<cfgIn, pcStart, runVars, poolVars, conn, rawVars, upc, spawned,
                 groupErr, initCalls, createCalls>>

\* client.Init(config, request), which may fail; then l, l.tasks and the errgroup
NewInit ==
  /\ npc = "init"
  /\ initCalls' = initCalls + 1
  /\ \/ /\ npc' = "spawn"
        /\ tasks' = [w \in 1..config.Connections |-> NoTask]
        /\ upc' = [w \in 1..config.Connections |-> "unborn"]
        /\ UNCHANGED ret
     \/ /\ \E e \in ErrTexts : ReturnNil(e)
        /\ UNCHANGED <<tasks, upc>>
  /\ UNCHANGED <<cfgIn, config, pcStart, stop, wpc, finishChan, sigChan, remaining,
                 drained, merged, finalStats, timerAt, start, actualRunningTime,
                 now, cause, poolVars, conn, rawVars, spawned, groupErr, createCalls>>

\* one iteration of the construction loop: idx := i; errs.Go(func() error {...})
NewGo ==
  /\ npc = "spawn"
  /\ spawned < config.Connections
  /\ spawned' = spawned + 1
  /\ upc' = [upc EXCEPT ![spawned + 1] = "go"]
  /\ UNCHANGED <<cfgIn, config, pcStart, runVars, poolVars, conn, rawVars, npc,
                 groupErr, ret, initCalls, createCalls>>

\* the goroutine calls client.CreateUser()
UserCreate(w) ==
  /\ upc[w] = "go"
  /\ createCalls' = createCalls + 1
  /\ upc' = [upc EXCEPT ![w] = "creating"]
  /\ UNCHANGED <<cfgIn, config, pcStart, runVars, poolVars, conn, rawVars, npc,
                 spawned, groupErr, ret, initCalls>>

\* faulty variant: the closure indexes with the loop variable, not its copy
slotOfLoopVar(w) == spawned

\* idx := i, the slot of goroutine w
slotOf(w) == w

\* CreateUser returned a user: l.tasks[idx] = task{...}; return nil
UserCreated(w) ==
  /\ upc[w] = "creating"
  /\ tasks' = [tasks EXCEPT ![slotOf(w)] = [stats |-> newStats(config.Timeout)]]
  /\ upc' = [upc EXCEPT ![w] = "done"]
  /\ UNCHANGED <<cfgIn, config, pcStart, stop, wpc, finishChan, sigChan, remaining,
                 drained, merged, finalStats, timerAt, start, actualRunningTime,
                 now, cause, poolVars, conn, rawVars, npc, spawned, groupErr, ret,
                 initCalls, createCalls>>

\* errgroup: the first error returned by a goroutine is kept (errOnce)
groupErrFirst(e) == IF groupErr = NoErr THEN e ELSE groupErr

\* CreateUser returned an error: return err, to the errgroup
UserFailed(w) ==
  /\ upc[w] = "creating"
  /\ \E e \in ErrTexts : groupErr' = groupErrFirst(e)
  /\ upc' = [upc EXCEPT ![w] = "failed"]
  /\ UNCHANGED <<cfgIn, config, pcStart, runVars, poolVars, conn, rawVars, npc,
                 spawned, ret, initCalls, createCalls>>

\* return l, errs.Wait(): Wait returns when every goroutine has returned
NewReturn ==
  /\ npc = "spawn"
  /\ spawned = config.Connections
  /\ \A w \in Users : upc[w] \in {"done", "failed"}
  /\ ret' = [l |-> "generator", err |-> groupErr]
  /\ npc' = "returned"
  /\ UNCHANGED <<cfgIn, config, pcStart, runVars, poolVars, conn, rawVars, upc,
                 spawned, groupErr, initCalls, createCalls>>

BuildInit ==
  /\ \E c \in BuildConfigs : cfgIn = c /\ config = c
  /\ pcStart = "new"
  /\ NoRun
  /\ pool = <<>>
  /\ call = NoCall
  /\ NoRaw
  /\ npc = "new"
  /\ upc = <<>>
  /\ spawned = 0
  /\ groupErr = NoErr
  /\ ret = [l |-> "none", err |-> NoErr]
  /\ initCalls = 0
  /\ createCalls = 0

BuildNext ==
  \/ NewRequest
  \/ NewInit
  \/ NewGo
  \/ \E w \in Users : UserCreate(w)
  \/ \E w \in Users : UserCreated(w)
  \/ \E w \in Users : UserFailed(w)
  \/ NewReturn

BuildSpec == BuildInit /\ [][BuildNext]_vars

\* ---------------------------------------------------------------- fairness

\* the runs checked for progress: a short duration, one or two connections
FairConfigs == LgConfig({"GET"}, {2}, {0, 2}, {5}, {64})

\* every worker such a run may have
WorkerIds == UNION {1..setDefaultConfig(c).Connections : c \in FairConfigs}

\* the steps of Start's goroutine
Coordinator ==
  \/ SelectFinish
  \/ SelectSignal
  \/ SelectTimer
  \/ Drain
  \/ DrainDone
  \/ Merge
  \/ Return

\* The scheduler runs Start's goroutine and every worker goroutine that can
\* take a step, every DoStaticRequest call returns, and time reaches a pending
\* timer. Interrupts need not come.
Fairness ==
  /\ WF_vars(Coordinator)
  /\ WF_vars(TickToTimer)
  /\ \A w \in WorkerIds :
       /\ WF_vars(w \in Workers /\ WorkerSeesStop(w))
       /\ WF_vars(w \in Workers /\ WorkerRequest(w))
       /\ WF_vars(w \in Workers /\ (WorkerResponse(w) \/ WorkerError(w)))
       /\ WF_vars(w \in Workers /\ WorkerSignal(w))

FairInit ==
  /\ \E c \in FairConfigs : Constructed(c)
  /\ pool = <<>>
  /\ call = NoCall
  /\ NoRaw

FairSpec == FairInit /\ [][Next]_vars /\ Fairness

\* ------------------------------------------------------------------ claims

Started == pcStart \in {"select", "drain", "merge", "returned"}
Merging == pcStart \in {"merge", "returned"}
Errors(s) == s.TimeoutErrors + s.ConnectionErrors

\* C1: Start trips the stop flag at the earliest of: all workers signalled,
\* Duration elapsed since the start timestamp, an interrupt; so once more than
\* Duration has passed since the start, the stop flag is set.
C1_StopWithinDuration ==
  (Started /\ now - start > config.Duration) => stop = 1

\* C2: Start merges a worker's Stats only after that worker's completion
\* signal: while Start merges or has returned every worker is done, and no
\* step taken then changes a worker's Stats.
C2_MergeAfterSignals ==
  /\ [](Merging => \A w \in Workers : wpc[w] = "done")
  /\ [][Merging' => tasks' = tasks]_vars

C2_Witness ==
  /\ pcStart = "merge"
  /\ merged = 1
  /\ config.Connections = 2
  /\ cause = "timer"
  /\ drained = 2
  /\ tasks[2].stats.ResponsesRecv > 0

\* C3: once Duration has elapsed or an interrupt is pending, Start eventually
\* returns, and when it has returned it has received the completion signal of
\* each of the N workers.
C3_StartReturns ==
  /\ (/\ pcStart \in {"select", "drain", "merge"}
      /\ (now - start >= config.Duration \/ sigChan > 0))
       ~> (pcStart = "returned")
  /\ [](pcStart = "returned" =>
          /\ (config.Connections - remaining) + drained = config.Connections
          /\ \A w \in Workers : wpc[w] = "done")

C3_Witness ==
  /\ pcStart = "returned"
  /\ config.Connections = 2
  /\ cause = "signal"
  /\ drained = 1
  /\ \E w \in Workers : Errors(tasks[w].stats) = 1

RECURSIVE binsUpTo(_, _)
binsUpTo(s, k) == IF k < 0 THEN 0 ELSE binsUpTo(s, k - 1) + s.Latencies[k]
\* the sum of all histogram bins
SumBins(s) == binsUpTo(s, s.limit - 1)

HistogramOk(s) ==
  /\ SumBins(s) = s.ResponsesRecv
  /\ \A k \in DOMAIN s.Latencies :
       s.Latencies[k] > 0 => s.MinLatency <= k /\ k <= s.MaxLatency
  /\ s.ResponsesRecv > 0 => s.MinLatency <= s.MaxLatency

\* C4: after any sequence of recordRequest, recordResponse and mergeStats
\* calls on Stats of one timeout, the bins sum to ResponsesRecv and every
\* non-zero bin lies in [MinLatency, MaxLatency].
C4_HistogramInvariant == \A i \in DOMAIN pool : HistogramOk(pool[i])

C4_Witness ==
  /\ call.op = "mergeStats"
  /\ call.s # call.other
  /\ pool[call.s].ResponsesRecv = 2
  /\ pool[call.other].ResponsesRecv = 1
  /\ pool[call.s].MinLatency < pool[call.other].MinLatency
  /\ pool[call.s].MaxLatency = pool[call.other].MaxLatency

CountersOk(s) == s.RequestsSent >= s.ResponsesRecv + Errors(s)

\* C5: in every state of a run each worker's Stats and the merged Stats
\* satisfy RequestsSent >= ResponsesRecv + TimeoutErrors + ConnectionErrors.
C5_RequestsBoundOutcomes ==
  /\ \A w \in DOMAIN tasks : CountersOk(tasks[w].stats)
  /\ Merging => CountersOk(finalStats)

C5_Witness ==
  /\ pcStart = "returned"
  /\ config.Connections = 2
  /\ finalStats.TimeoutErrors = 1
  /\ finalStats.ConnectionErrors = 1
  /\ finalStats.ResponsesRecv = 1
  /\ finalStats.RequestsSent = 3

\* the configured timeout in microseconds
TimeoutMicros == Microseconds(config.Timeout)

\* C6 as stated: a recordResponse call with latency >= timeout (in µs)
\* increments no bin.
C6_NoSampleAtTimeout ==
  [][(call'.op = "recordResponse" /\ call'.latency >= TimeoutMicros)
       => pool'[call'.s].Latencies = pool[call'.s].Latencies]_vars

\* C6 amended: a recordResponse call with latency > timeout (in µs), that is
\* latency >= limit, changes nothing in the Stats: no bin, no counter.
C6_NoSampleBeyondTimeout ==
  [][(call'.op = "recordResponse" /\ call'.latency > TimeoutMicros)
       => pool' = pool]_vars

C6_Witness ==
  /\ call.op = "recordResponse"
  /\ call.latency > TimeoutMicros
  /\ pool[call.s].ResponsesRecv > 0

\* C7 as stated: a run configured with Duration = 0 returns at once with
\* empty Stats.
C7_ZeroDurationEmpty ==
  (cfgIn.Duration = 0 /\ pcStart = "returned")
    => (finalStats = newStats(config.Timeout) /\ actualRunningTime = 0)

\* C7 amended: a run configured with Duration = 0 runs with the default
\* Duration of one second: the duration timer ends its wait loop no earlier
\* than one second after the start.
C7_ZeroDurationRunsDefault ==
  cfgIn.Duration = 0 =>
    /\ config.Duration = defaultDuration
    /\ cause = "timer" => now - start >= defaultDuration

C7_Witness ==
  /\ cfgIn.Duration = 0
  /\ pcStart = "returned"
  /\ cause = "timer"
  /\ actualRunningTime >= defaultDuration
  /\ finalStats.RequestsSent > 0

\* C8: after the default-application step every missing field of the config
\* holds its default and every set field is unchanged.
C8_DefaultsApplied ==
  pcStart = "defaulted" =>
    /\ config.RequestConfig.Method =
         (IF cfgIn.RequestConfig.Method = "" THEN "GET" ELSE cfgIn.RequestConfig.Method)
    /\ config.Duration = (IF cfgIn.Duration <= 0 THEN 1000000 * TicksPerMicro ELSE cfgIn.Duration)
    /\ config.Connections = (IF cfgIn.Connections <= 0 THEN 1 ELSE cfgIn.Connections)
    /\ config.Timeout = (IF cfgIn.Timeout <= 0 THEN 60 * 1000000 * TicksPerMicro ELSE cfgIn.Timeout)
    /\ config.MaxResponseSize =
         (IF cfgIn.MaxResponseSize <= 0 THEN 4096 ELSE cfgIn.MaxResponseSize)

C10_AnyErrorEndsRun ==
  (pcStart = "select" /\ finishChan = 0) =>
    \A w \in Workers : wpc[w] = "done" => Errors(tasks[w].stats) = 0

\* ------------------------------------------------------- claims: raw client

\* the worker is inside fillResponse, before a read
Reading == rpc \in {"read", "headers", "body"}

\* fillResponse waits for bytes the server will not send: the answer has been
\* read whole and the parser has not taken it as complete
Starved == Reading /\ wire = <<>>

\* the errors of the transport: the deadline, the peer, the socket
TransportErrors == ErrTexts \cup {ErrClosed}

\* the server's answer names its length as "Content-Length: <digits>"
ExactFormat == serverResp # NoResponse /\ serverResp.form = "exact"

\* the server's answer has a Content-Length header in any well-formed spelling
HasContentLength == serverResp # NoResponse /\ serverResp.form # "none"

\* the header section of the server's answer fits the buffer
HeaderFits == serverResp # NoResponse /\ HeaderLen(serverResp) <= config.MaxResponseSize

\* what fillResponse owes for the answer: it never waits for more than the
\* answer, it fails only as the transport fails, and what it returns is the
\* status line's code and the whole length on the wire
ReadsWhole ==
  /\ ~Starved
  /\ rpc # "panic"
  /\ rpc = "err" => err \in TransportErrors
  /\ rpc = "ok" =>
       /\ response.StatusCode = serverResp.code
       /\ response.Size = Len(OnWire(serverResp))
       /\ wire = <<>>

C12_SplitTerminatorFound ==
  [][(rpc = "headers" /\ n' > n) =>
       LET i == Index(Slice(rawResponse'.rawBytes, 0, n'), bCrlfCrlf)
       IN (i # -1 /\ n - i \in 1..3) =>
            /\ rpc' \in {"body", "ok"}
            /\ rawResponse'.bodyStart = i + 4]_vars

\* the terminator came two bytes in one read and two in the next, and the
\* body is being awaited
C12_Witness ==
  /\ rpc = "body"
  /\ splitAt = 2
  /\ rawResponse.bodyStart = HeaderLen(serverResp)
  /\ n >= rawResponse.bodyStart

\* the Stats of the raw worker
RawStats == tasks[RawWorker].stats

\* the raw worker has left its loop
RawExited == wpc[RawWorker] \in {"exit", "done"}

\* fillResponse has failed on a full buffer
BufferFull == err = ErrBufferFull(config.MaxResponseSize)

\* C13: the header loop never reads with the buffer full (every read of the
\* loop adds at least one byte, so it ends within MaxResponseSize reads):
\* when the bytes read reach the capacity with no CRLFCRLF among them
\* fillResponse returns the buffer-full error. The worker then adds one to
\* ConnectionErrors, changes nothing else of its Stats and leaves its loop;
\* no response of an answer whose headers do not fit is ever recorded.
C13_BufferFullEndsWorker ==
  /\ [](rpc = "headers" => n < Len(rawResponse.rawBytes))
  /\ [][(rpc \in {"read", "headers"} /\ rpc' = "headers" /\ wire' # wire) =>
          n' > n]_vars
  /\ [][(rpc = "err" /\ BufferFull /\ rpc' # "err") =>
          /\ RawStats' = [RawStats EXCEPT !.ConnectionErrors = @ + 1]
          /\ wpc'[RawWorker] = "exit"]_vars
  /\ []((serverResp # NoResponse /\ ~HeaderFits) =>
          /\ RawStats.ResponsesRecv = 0
          /\ RawStats.BytesRecv = 0
          /\ rpc = "err" => (BufferFull \/ err \in TransportErrors))
  /\ []((RawExited /\ BufferFull) =>
          /\ RawStats.ConnectionErrors = 1
          /\ RawStats.TimeoutErrors = 0)

\* the headers did not fit: the worker is done with one connection error
\* and no response
C13_Witness ==
  /\ wpc[RawWorker] = "done"
  /\ ~HeaderFits
  /\ BufferFull
  /\ RawStats.ConnectionErrors = 1
  /\ RawStats.ResponsesRecv = 0
  /\ RawStats.RequestsSent = 1

\* C14: an answer with no Content-Length header is never returned as a
\* response by DoStaticRequest and never recorded.
C14_NoLengthIsError ==
  (serverResp # NoResponse /\ serverResp.form = "none") =>
    /\ rpc # "ok"
    /\ RawStats.ResponsesRecv = 0

\* C15: a read that ends on the deadline makes DoStaticRequest return the
\* read's timeout error, with the Stats as they were; the worker then adds
\* one to TimeoutErrors, leaves ResponsesRecv, BytesRecv and the histogram
\* (every other field) as they were, and leaves its loop, after which its
\* Stats do not change.
C15_DeadlineCountsOneTimeout ==
  /\ [][(Reading /\ rpc' = "err" /\ err' = ErrTimeoutNet) =>
          /\ deadline
          /\ RawStats' = RawStats]_vars
  /\ [][(rpc = "err" /\ err = ErrTimeoutNet /\ rpc' # "err") =>
          /\ RawStats' = [RawStats EXCEPT !.TimeoutErrors = @ + 1]
          /\ wpc'[RawWorker] = "exit"]_vars
  /\ [][RawExited => (RawStats' = RawStats /\ RawExited')]_vars

\* the deadline passed while the body of the first answer was awaited, with
\* its headers in the buffer: one timeout, no response, no byte received
C15_Witness ==
  /\ wpc[RawWorker] = "done"
  /\ err = ErrTimeoutNet
  /\ serverResp = LongBody
  /\ written = 1
  /\ Index(rawResponse.rawBytes, bCrlfCrlf) # -1
  /\ RawStats.TimeoutErrors = 1
  /\ RawStats.ConnectionErrors = 0
  /\ RawStats.ResponsesRecv = 0
  /\ RawStats.BytesRecv = 0

\* the text e has the word timeout in it, each letter in either case
TimeoutAnyCase(e) ==
  LET lower == <<"t","i","m","e","o","u","t">>
      upper == <<"T","I","M","E","O","U","T">>
  IN \E i \in 0..(Len(e) - 7) : \A j \in 1..7 : e[i + j] \in {lower[j], upper[j]}

\* C16: on every error DoStaticRequest returns, the worker adds one to
\* exactly one counter, TimeoutErrors if the error's text has "timeout" in
\* it in any letter case and ConnectionErrors otherwise, and changes no other
\* field of its Stats.
C16_OneCounterPerError ==
  [][(rpc = "err" /\ rpc' # "err") =>
       RawStats' = IF TimeoutAnyCase(err)
                   THEN [RawStats EXCEPT !.TimeoutErrors = @ + 1]
                   ELSE [RawStats EXCEPT !.ConnectionErrors = @ + 1]]_vars

\* a write failed with net/http's "Client.Timeout" after one recorded
\* response: it was counted as a timeout, and as nothing else
C16_Witness ==
  /\ RawExited
  /\ err = ErrTimeoutHttp
  /\ RawStats.TimeoutErrors = 1
  /\ RawStats.ConnectionErrors = 0
  /\ RawStats.ResponsesRecv = 1
  /\ RawStats.RequestsSent = 2

\* C17: whenever DoStaticRequest of the raw worker returns an error, from
\* the deadline's setting, from the write or from fillResponse, the
\* connection is closed; a closed connection stays closed, and no
\* DoStaticRequest is begun or continued on it: the worker sends no request
\* after the error.
C17_ErrorClosesForGood ==
  /\ [](rpc = "err" => conn[RawWorker] = "closed")
  /\ [][conn[RawWorker] = "closed" =>
          /\ conn'[RawWorker] = "closed"
          /\ rpc' \in {rpc, "out"}
          /\ written' = written
          /\ RawStats'.RequestsSent = RawStats.RequestsSent]_vars
  /\ [](conn[RawWorker] = "closed" =>
          (rpc \in {"err", "out"} /\ wpc[RawWorker] \in {"inflight", "exit", "done"}))

\* the second request's write failed: the connection is closed and the
\* worker has ended with two requests sent, one of them written
C17_Witness ==
  /\ conn[RawWorker] = "closed"
  /\ wpc[RawWorker] = "done"
  /\ err = ErrReset
  /\ written = 1
  /\ RawStats.RequestsSent = 2
  /\ RawStats.ConnectionErrors = 1

\* ---------------------------------------------------- claims: connections

\* C18: when Start has returned every worker's connection is closed,
\* whether the worker ended on an error or on the stop flag.
C18_AllClosedAfterStart ==
  pcStart = "returned" => \A w \in Workers : conn[w] = "closed"

\* ------------------------------------------------ claims: status errors

\* the raw worker takes the response DoStaticRequest has returned: the step
\* from the return to the top of the loop
TakesResponse == rpc = "ok" /\ rpc' = "out"

\* the step has recorded the returned response: one more response, its
\* size more bytes, one more sample in a bin of the histogram, and one more
\* status error exactly when its status code is above 399
Recorded ==
  /\ RawStats'.ResponsesRecv = RawStats.ResponsesRecv + 1
  /\ RawStats'.BytesRecv = RawStats.BytesRecv + response.Size
  /\ \E l \in DOMAIN RawStats.Latencies :
       RawStats'.Latencies = [RawStats.Latencies EXCEPT ![l] = @ + 1]
  /\ RawStats'.StatusErrors =
       RawStats.StatusErrors + IF response.StatusCode > 399 THEN 1 ELSE 0

\* C19 (amended): a returned response is either recorded, as a response and,
\* when its status code is above 399, as one status error too, or, its
\* latency being at the limit or above, dropped with the Stats unchanged; in
\* both cases the worker goes on with its loop. No other step changes
\* ResponsesRecv or StatusErrors, so StatusErrors is the number of recorded
\* responses with a status code above 399, and at most ResponsesRecv.
C19_StatusErrorsOfRecorded ==
  /\ [][TakesResponse =>
          /\ Recorded \/ RawStats' = RawStats
          /\ wpc'[RawWorker] = "top"]_vars
  /\ [][~TakesResponse =>
          /\ RawStats'.ResponsesRecv = RawStats.ResponsesRecv
          /\ RawStats'.StatusErrors = RawStats.StatusErrors]_vars
  /\ [](RawStats.StatusErrors <= RawStats.ResponsesRecv)
  /\ [](ExactFormat =>
          RawStats.StatusErrors =
            IF serverResp.code > 399 THEN RawStats.ResponsesRecv ELSE 0)

\* C19 as stated: every returned response with a status code above 399 is
\* recorded, as a response and as a status error, and the worker goes on.
C19_EveryStatusErrorCounted ==
  [][(TakesResponse /\ response.StatusCode > 399) =>
       /\ Recorded
       /\ wpc'[RawWorker] = "top"]_vars

\* two 404 answers have been returned; one was recorded, as a response and
\* as a status error, the other dropped for its latency; the worker is at
\* the top of its loop
C19_Witness ==
  /\ serverResp.code = 404
  /\ respCalls = 2
  /\ RawStats.ResponsesRecv = 1
  /\ RawStats.StatusErrors = 1
  /\ RawStats.RequestsSent = 2
  /\ wpc[RawWorker] = "top"
  /\ conn[RawWorker] = "open"

\* ------------------------------------------------- claims: closed loop

\* C20: within the raw worker the requests recorded (RequestsSent), the
\* requests written and the calls of recordResponse advance in turn:
\* recordRequest of a cycle only when every earlier request has been written
\* and answered to recordResponse, the write only after the cycle's
\* recordRequest, recordResponse only after the cycle's write; at no time is
\* more than one written request without its recordResponse.
C20_ClosedLoopOrder ==
  /\ [](/\ respCalls <= written
        /\ written <= RawStats.RequestsSent
        /\ RawStats.RequestsSent <= respCalls + 1)
  /\ [][RawStats'.RequestsSent # RawStats.RequestsSent =>
          /\ RawStats'.RequestsSent = RawStats.RequestsSent + 1
          /\ written = RawStats.RequestsSent
          /\ respCalls = RawStats.RequestsSent
          /\ UNCHANGED <<written, respCalls>>]_vars
  /\ [][written' # written =>
          /\ written' = written + 1
          /\ RawStats.RequestsSent = written + 1
          /\ respCalls = written
          /\ UNCHANGED <<RawStats, respCalls>>]_vars
  /\ [][respCalls' # respCalls =>
          /\ respCalls' = respCalls + 1
          /\ written = respCalls + 1
          /\ RawStats.RequestsSent = written
          /\ RawStats'.RequestsSent = RawStats.RequestsSent
          /\ written' = written]_vars

\* the second request is written and awaits its answer; the first has been
\* answered and taken to recordResponse
C20_Witness ==
  /\ rpc = "read"
  /\ RawStats.RequestsSent = 2
  /\ written = 2
  /\ respCalls = 1

\* ------------------------------------------------- claims: the stop flag

\* C21: a worker examines the stop flag only at the top of a cycle. Once
\* the flag is set it stays set and no worker passes the loop condition
\* again: a worker records a request after the set only when its check
\* preceded the set. A request in flight ends only by its response or its
\* error, never by the flag; a worker at the top of its loop with the flag
\* set leaves the loop, and a worker that has left the loop only sends its
\* completion signal.
C21_StopSeenAtTopOnly ==
  /\ [][stop = 1 => stop' = 1]_vars
  /\ [][\A w \in Workers :
          /\ (stop = 1 /\ wpc'[w] = "checked") => wpc[w] = "checked"
          /\ (tasks'[w].stats.RequestsSent # tasks[w].stats.RequestsSent) =>
               (wpc[w] = "checked" /\ wpc'[w] = "inflight")
          /\ (wpc[w] = "checked" /\ wpc'[w] # "checked") => wpc'[w] = "inflight"
          /\ (wpc[w] = "inflight" /\ wpc'[w] # "inflight") =>
               \/ wpc'[w] = "top" /\ Errors(tasks'[w].stats) = Errors(tasks[w].stats)
               \/ wpc'[w] = "exit" /\ Errors(tasks'[w].stats) = Errors(tasks[w].stats) + 1
          /\ (wpc[w] = "top" /\ wpc'[w] = "exit") => stop = 1
          /\ (wpc[w] = "top" /\ stop = 1 /\ wpc'[w] # "top") => wpc'[w] = "exit"
          /\ (wpc[w] = "exit" /\ wpc'[w] # "exit") =>
               (wpc'[w] = "done" /\ finishChan' = finishChan + 1)]_vars

\* the flag was set between worker 1's check of it and its request: the
\* worker is about to record and send one more request; worker 2's request
\* is in flight
C21_Witness ==
  /\ config.Connections = 2
  /\ stop = 1
  /\ pcStart = "drain"
  /\ wpc[1] = "checked"
  /\ wpc[2] = "inflight"

\* ------------------------------------------------- claims: construction

\* the slot of user w is populated: it has a Stats (and a User, a Response)
Populated(w) == tasks[w].stats # NoStats

\* C22: client.Init is called at most once and before every CreateUser
\* call; CreateUser is called once by each goroutine started, at most
\* Connections times in all; a goroutine populates its own slot and no
\* other; and when NewLoadGenerator has returned with no error Init has been
\* called once, CreateUser Connections times, and every slot is populated.
C22_InitOnceThenUsers ==
  /\ [](initCalls <= 1 /\ createCalls <= spawned /\ spawned <= Len(upc))
  /\ [](createCalls > 0 => initCalls = 1)
  /\ [][createCalls' # createCalls =>
          (createCalls' = createCalls + 1 /\ initCalls = 1 /\ initCalls' = 1)]_vars
  /\ [](createCalls = Cardinality({w \in Users : upc[w] \in {"creating", "done", "failed"}}))
  /\ [](\A w \in Users : Populated(w) <=> upc[w] = "done")
  /\ [][\A w \in Users :
          (w \in DOMAIN tasks /\ w \in DOMAIN tasks' /\ tasks'[w] # tasks[w]) =>
            (upc[w] = "creating" /\ upc'[w] = "done" /\
             \A v \in Users \ {w} : tasks'[v] = tasks[v])]_vars
  /\ []((npc = "returned" /\ ret.err = NoErr) =>
          /\ ret.l = "generator"
          /\ initCalls = 1
          /\ createCalls = config.Connections
          /\ Len(tasks) = config.Connections
          /\ \A w \in 1..config.Connections : Populated(w))

\* three users have been constructed and NewLoadGenerator has returned the
\* generator with no error
C22_Witness ==
  /\ npc = "returned"
  /\ ret = [l |-> "generator", err |-> NoErr]
  /\ config.Connections = 3
  /\ createCalls = 3
  /\ initCalls = 1

\* C23: once a CreateUser call has failed NewLoadGenerator starts no further
\* construction (no goroutine is started, no CreateUser called); it returns
\* only when every goroutine started has returned; and it returns the first
\* error.
C23_FailFastThenWait ==
  /\ [][groupErr # NoErr =>
          (spawned' = spawned /\ createCalls' = createCalls)]_vars
  /\ []((npc = "returned" /\ groupErr # NoErr) =>
          /\ \A w \in Users : upc[w] \in {"unborn", "done", "failed"}
          /\ ret.err = groupErr)

\* C30: when NewLoadGenerator has returned an error it has returned no
\* generator, and every generator it has returned has all its task slots
\* populated.
C30_ErrorMeansNoGenerator ==
  npc = "returned" =>
    /\ ret.err # NoErr => ret.l = "nil"
    /\ ret.l = "generator" =>
         (Len(tasks) = config.Connections /\ \A w \in 1..Len(tasks) : Populated(w))

\* ------------------------------------------------------ claims: merging

\* C24: for all Stats A, B, C of the pool (built with the same timeout, by
\* any calls of recordRequest, recordResponse and mergeStats), merging B
\* into A and then C into the result gives the Stats that merging C into B
\* and the result into A gives: counters, MinLatency, MaxLatency and every
\* bin of the histogram.
C24_MergeAssociative ==
  \A i \in 1..PoolSize, j \in 1..PoolSize, k \in 1..PoolSize :
    mergeStats(mergeStats(pool[i], pool[j]), pool[k])
      = mergeStats(pool[i], mergeStats(pool[j], pool[k]))

\* three Stats with one response each, at three latencies: merged in either
\* grouping they make one Stats of three responses over [0, 2]
C24_Witness ==
  /\ \A i \in 1..PoolSize : pool[i].ResponsesRecv = 1
  /\ pool[1].MinLatency = 0
  /\ pool[2].MinLatency = 1
  /\ pool[3].MinLatency = 2
  /\ mergeStats(pool[1], mergeStats(pool[2], pool[3])).ResponsesRecv = 3
  /\ mergeStats(mergeStats(pool[1], pool[2]), pool[3]).Latencies[2] = 1
  /\ mergeStats(mergeStats(pool[1], pool[2]), pool[3]).MinLatency = 0
  /\ mergeStats(mergeStats(pool[1], pool[2]), pool[3]).MaxLatency = 2

\* ------------------------------------------------- Stats.LatencyPercentile

\* the percentages LatencyPercentile is called with
Percents == {-1, 0, 1, 50, 99, 100, 101}
\* the answered requests of a Stats that is asked for a percentile
MaxSamples == 3
\* the requests of that Stats that got no recorded response
MaxLost == 2

\* math.Round(num / den) for num >= 0 and den > 0: halves round away from zero
Round(num, den) == (2 * num + den) \div (2 * den)

\* int64(math.Round(percent/100.0*float64(count) + 0.5)) in exact arithmetic:
\* percent/100*count + 0.5 = (2*percent*count + 100) / 200
rankOf(percent, count) == Round(2 * percent * count + 100, 200)

RECURSIVE binReaching(_, _, _, _)
\* the loop of LatencyPercentile from bin i on, total counting the bins below
\* i: the first bin at which total >= rank, 0 when the loop ends without one
binReaching(s, rank, i, total) ==
  IF i > s.MaxLatency
  THEN 0
  ELSE IF total + s.Latencies[i] >= rank
       THEN i
       ELSE binReaching(s, rank, i + 1, total + s.Latencies[i])

\* faulty variant: percent = 100 is not answered with MaxLatency but ranked
LatencyPercentileRanked(s, percent) ==
  IF percent < 0 \/ percent > 100
  THEN 0
  ELSE binReaching(s, rankOf(percent, s.RequestsSent), s.MinLatency, 0)

LatencyPercentile(s, percent) ==
  IF percent < 0 \/ percent > 100
  THEN 0
  ELSE IF percent = 100
       THEN s.MaxLatency
       ELSE binReaching(s, rankOf(percent, s.RequestsSent), s.MinLatency, 0)

RECURSIVE afterSamples(_, _, _)
\* the Stats s after the first k requests of lats were sent and answered,
\* the i-th with latency lats[i]
afterSamples(s, lats, k) ==
  IF k = 0
  THEN s
  ELSE recordResponse(recordRequest(afterSamples(s, lats, k - 1), RequestLen),
                      lats[k], [StatusCode |-> 200, Size |-> 62])

RECURSIVE afterLost(_, _)
\* the Stats s after k more requests were sent and none of them answered
afterLost(s, k) ==
  IF k = 0 THEN s ELSE recordRequest(afterLost(s, k - 1), RequestLen)

\* one Stats of a worker: some requests answered, some not
PercentileInit ==
  /\ \E t \in StatsTimeouts, answered \in 0..MaxSamples, lost \in 0..MaxLost :
       \E lats \in [1..answered -> LatencyInputs(newStats(t))] :
         /\ pool = <<afterLost(afterSamples(newStats(t), lats, answered), lost)>>
         /\ cfgIn = [RequestConfig |-> [Method |-> "GET"], Duration |-> 2,
                     Connections |-> 1, Timeout |-> t, MaxResponseSize |-> 64]
         /\ config = cfgIn
  /\ call = NoCall
  /\ pcStart = "stats"
  /\ NoRun
  /\ NoRaw
  /\ NoBuild

\* pool[1].LatencyPercentile(percent)
PoolPercentile(percent) ==
  /\ call' = [op |-> "LatencyPercentile", s |-> 1, percent |-> percent,
              result |-> LatencyPercentile(pool[1], percent)]
  /\ UNCHANGED <<pool, cfgIn, config, pcStart, runVars, conn, rawVars, buildVars>>

PercentileNext == \E percent \in Percents : PoolPercentile(percent)

PercentileSpec == PercentileInit /\ [][PercentileNext]_vars

\* --------------------------------------------------- claims: percentiles

RECURSIVE countUpTo(_, _)
\* the responses of s recorded in the bins MinLatency..i
countUpTo(s, i) ==
  IF i < s.MinLatency THEN 0 ELSE countUpTo(s, i - 1) + s.Latencies[i]

\* v is the first bin from MinLatency on whose cumulative count reaches rank
FirstBinReaching(s, rank, v) ==
  /\ v \in s.MinLatency..s.MaxLatency
  /\ countUpTo(s, v) >= rank
  /\ \A u \in s.MinLatency..(v - 1) : countUpTo(s, u) < rank

\* C25: for a Stats with ResponsesRecv > 0 and 0 <= percent < 100, the value
\* LatencyPercentile returns is at least the value of the same walk with the
\* rank computed from ResponsesRecv, and it is the first bin from MinLatency
\* whose cumulative count reaches the rank computed from RequestsSent.
C25_RankAgainstSentNotBelow ==
  (/\ call.op = "LatencyPercentile"
   /\ pool[1].ResponsesRecv > 0
   /\ call.percent >= 0
   /\ call.percent < 100)
    => /\ call.result >= binReaching(pool[1],
                                     rankOf(call.percent, pool[1].ResponsesRecv),
                                     pool[1].MinLatency, 0)
       /\ FirstBinReaching(pool[1], rankOf(call.percent, pool[1].RequestsSent),
                           call.result)

\* C26: LatencyPercentile(0) is at most MinLatency, and LatencyPercentile(100)
\* is MaxLatency when the Stats has recorded a response.
C26_PercentileEnds ==
  call.op = "LatencyPercentile" =>
    /\ call.percent = 0 => call.result <= pool[1].MinLatency
    /\ (call.percent = 100 /\ pool[1].ResponsesRecv > 0)
         => call.result = pool[1].MaxLatency

\* the hundredth percentile of two responses at 0 and 2 microseconds, a third
\* request unanswered
C26_Witness ==
  /\ call.op = "LatencyPercentile"
  /\ call.percent = 100
  /\ pool[1].RequestsSent = 3
  /\ pool[1].ResponsesRecv = 2
  /\ pool[1].MinLatency = 0
  /\ pool[1].MaxLatency = 2
  /\ call.result = 2

\* -------------------------------------------------- claims: the scan cursor

\* C27: within one response the scan cursor lastIndex never moves back from
\* one CanStartParse call to the next: the first read of a response cycle
\* resets it to 0 (ResetState) and no later step of the cycle leaves it
\* smaller than it was.
C27_CursorNeverBack ==
  [][rawResponse'.lastIndex >= (IF rpc = "read" THEN 0 ELSE rawResponse.lastIndex)]_vars

\* the second response of a connection, its terminator split over two reads:
\* CanStartParse was called at least twice in this cycle and the cursor is
\* where ResetState put it
C27_Witness ==
  /\ rpc = "ok"
  /\ splitAt = 2
  /\ n = rawResponse.bodyStart
  /\ rawResponse.lastIndex = 0
  /\ tasks[RawWorker].stats.ResponsesRecv = 1

\* ------------------------------------------- claims: the completion signals

\* the workers that have sent their completion signal
Signalled == {w \in Workers : wpc[w] = "done"}
\* the signals Start has received, in its wait loop and in its drain loop
Consumed == (config.Connections - remaining) + drained

\* C28: a worker sends one completion signal, as its last step, and the send
\* finds room in the channel; every signal sent is in the channel or was
\* received by Start, and when Start goes on to merge it has received N
\* signals, one per worker, and the channel is empty.
C28_OneSignalEachAllConsumed ==
  /\ [](Started => \A w \in Workers : wpc[w] = "exit" => finishChan < finishCap)
  /\ [](Started => Cardinality(Signalled) = finishChan + Consumed)
  /\ [](Merging => (Consumed = config.Connections /\ finishChan = 0))
  /\ [][\A w \in Workers :
          /\ wpc[w] = "done" => (wpc'[w] = "done" /\ tasks'[w] = tasks[w])
          /\ wpc'[w] = "done" => wpc[w] \in {"exit", "done"}]_vars
  /\ [][finishChan' > finishChan =>
          /\ finishChan' = finishChan + 1
          /\ Cardinality(Signalled') = Cardinality(Signalled) + 1]_vars

\* both workers ended on an error; Start received one signal in its wait
\* loop, the timer ended that loop, and the other signal in its drain loop
C28_Witness ==
  /\ pcStart = "merge"
  /\ config.Connections = 2
  /\ cause = "timer"
  /\ remaining = 1
  /\ drained = 1
  /\ finishChan = 0
  /\ \A w \in Workers : Errors(tasks[w].stats) = 1

\* ------------------------------------------- claims: one error per worker

\* C29: a worker counts at most one transport error in its lifetime, the
\* one that ends its loop, so each worker's TimeoutErrors + ConnectionErrors
\* is at most 1, a worker that has counted one sends no further request, and
\* the merged Stats count at most N of them.
C29_OneErrorPerWorker ==
  /\ \A w \in DOMAIN tasks :
       /\ Errors(tasks[w].stats) <= 1
       /\ Errors(tasks[w].stats) = 1 => wpc[w] \in {"exit", "done"}
  /\ Merging => Errors(finalStats) <= config.Connections

\* each of two workers ended on an error after one of them had a response:
\* the merged Stats count two errors, N
C29_Witness ==
  /\ pcStart = "returned"
  /\ config.Connections = 2
  /\ \A w \in Workers : Errors(tasks[w].stats) = 1
  /\ Errors(finalStats) = 2
  /\ finalStats.ResponsesRecv = 1

\* ------------------------------------- Stats.LatencyMean and what is near it

\* the n of LatencyPercentageWithinStdev(n)
StdevCounts == {1, 2}

RECURSIVE weightedUpTo(_, _)
\* sum += i * s.Latencies[i] over the bins MinLatency..i
weightedUpTo(s, i) ==
  IF i < s.MinLatency THEN 0 ELSE weightedUpTo(s, i - 1) + i * s.Latencies[i]

\* LatencyMean: the value returned and the receiver as the call leaves it
\* (s.mean caches the quotient; the test s.mean > 0 fails for 0 and for NaN)
LatencyMean(s) ==
  IF s.RequestsSent = 0
  THEN [ret |-> Float(0, 1), s |-> s]
  ELSE IF s.mean.num > 0 /\ s.mean.den > 0
       THEN [ret |-> s.mean, s |-> s]
       ELSE LET m == Float(weightedUpTo(s, s.MaxLatency), s.ResponsesRecv)
            IN [ret |-> m, s |-> [s EXCEPT !.mean = m]]

RECURSIVE squaresUpTo(_, _, _)
\* the sum of dif * dif * Latencies[i] of LatencyStdev over MinLatency..i for
\* the mean total / ResponsesRecv, times ResponsesRecv squared
squaresUpTo(s, total, i) ==
  IF i < s.MinLatency
  THEN 0
  ELSE squaresUpTo(s, total, i - 1)
         + (i * s.ResponsesRecv - total) * (i * s.ResponsesRecv - total) * s.Latencies[i]

\* the square of LatencyStdev times ResponsesRecv squared times
\* (ResponsesRecv - 1): 0 with fewer than two responses (not enough data)
stdevSquareScaled(s) ==
  IF s.ResponsesRecv < 2
  THEN 0
  ELSE squaresUpTo(s, weightedUpTo(s, s.MaxLatency), s.MaxLatency)

\* i >= lower && i <= upper of LatencyPercentageWithinStdev, in exact
\* arithmetic: lower = floor(mean - n * stdev), upper = ceil(mean + n * stdev).
\* With a NaN mean the conversions int64(NaN) depend on the platform: the
\* outcome of the test is nan, either value.
withinStdev(s, i, k, nan) ==
  LET total == weightedUpTo(s, s.MaxLatency)
      above == (i - 1) * s.ResponsesRecv - total
      below == total - (i + 1) * s.ResponsesRecv
      spread == k * k * stdevSquareScaled(s)
  IN IF s.ResponsesRecv = 0
     THEN nan
     ELSE /\ (above < 0 \/ above * above * (s.ResponsesRecv - 1) < spread)
          /\ (below < 0 \/ below * below * (s.ResponsesRecv - 1) < spread)

RECURSIVE withinUpTo(_, _, _, _)
\* the samples of the bins MinLatency..i that pass the test
withinUpTo(s, i, k, nan) ==
  IF i < s.MinLatency
  THEN 0
  ELSE withinUpTo(s, i - 1, k, nan)
         + (IF withinStdev(s, i, k, nan) THEN s.Latencies[i] ELSE 0)

\* LatencyPercentageWithinStdev(k): 100.0 * float64(sum) / float64(ResponsesRecv)
LatencyPercentageWithinStdev(s, k, nan) ==
  [ret |-> Float(100 * withinUpTo(s, s.MaxLatency, k, nan), s.ResponsesRecv),
   s |-> LatencyMean(s).s]

\* pool[1].LatencyMean()
PoolMean ==
  /\ \E r \in {LatencyMean(pool[1])} :
       /\ call' = [op |-> "LatencyMean", s |-> 1, result |-> r.ret]
       /\ pool' = <<r.s>>
  /\ UNCHANGED <<cfgIn, config, pcStart, runVars, conn, rawVars, buildVars>>

\* pool[1].LatencyPercentageWithinStdev(k)
PoolWithinStdev(k) ==
  /\ \E nan \in BOOLEAN :
     \E r \in {LatencyPercentageWithinStdev(pool[1], k, nan)} :
       /\ call' = [op |-> "LatencyPercentageWithinStdev", s |-> 1, k |-> k,
                   result |-> r.ret]
       /\ pool' = <<r.s>>
  /\ UNCHANGED <<cfgIn, config, pcStart, runVars, conn, rawVars, buildVars>>

ReportNext ==
  \/ PoolMean
  \/ \E k \in StdevCounts : PoolWithinStdev(k)

\* the Stats of a run asked for its mean and its share within the deviation
ReportSpec == PercentileInit /\ [][ReportNext]_vars

\* ------------------------------------------------------- claims: the mean

\* C31: LatencyMean and LatencyPercentageWithinStdev never divide by zero:
\* the value returned is a quotient with a divisor other than 0, and for a
\* Stats with RequestsSent > 0 and ResponsesRecv = 0 it is 0.
C31_NoDivisionByZero ==
  call.op \in {"LatencyMean", "LatencyPercentageWithinStdev"} =>
    /\ call.result.den # 0
    /\ (pool[1].RequestsSent > 0 /\ pool[1].ResponsesRecv = 0)
         => call.result.num = 0

\* ------------------------------------------- the worker's clock readings

\* the wall clock's readings, in microseconds (Gettimeofday counts them)
MaxClockMicros == 3
ClockMicros == 0..MaxClockMicros

\* tv.Nano() of a reading
Nano(tv) == tv * TicksPerMicro

\* latency := (tv.Nano() - prev) / 1e3
latencyOf(prev, tv) == Microseconds(Nano(tv) - prev)

\* s.Latencies[latency]++ is reached with an index outside the slice: the
\* runtime panics
indexPanics(s, latency) == latency < s.limit /\ latency \notin DOMAIN s.Latencies

\* a worker before its loop: its Stats are new, tv holds the first reading
ClockInit ==
  /\ \E t \in StatsTimeouts, tv \in ClockMicros :
       /\ pool = <<newStats(t)>>
       /\ call = [op |-> "Gettimeofday", tv |-> tv, latency |-> 0, panicked |-> FALSE]
       /\ cfgIn = [RequestConfig |-> [Method |-> "GET"], Duration |-> 2,
                   Connections |-> 1, Timeout |-> t, MaxResponseSize |-> 64]
       /\ config = cfgIn
  /\ pcStart = "stats"
  /\ NoRun
  /\ NoRaw
  /\ NoBuild

\* one cycle of the loop whose DoStaticRequest returns nil: the request is
\* recorded, prev := tv.Nano(), the clock is read again (the wall clock may
\* have been set back in between), the latency is computed and recorded
ClockCycle ==
  /\ ~call.panicked
  /\ pool[1].RequestsSent < MaxSamples
  /\ \E r \in Responses, tv \in ClockMicros :
     \E latency \in {latencyOf(Nano(call.tv), tv)} :
     \E sent \in {recordRequest(pool[1], RequestLen)} :
       /\ call' = [op |-> "recordResponse", tv |-> tv, latency |-> latency,
                   panicked |-> indexPanics(sent, latency)]
       /\ pool' = IF indexPanics(sent, latency)
                  THEN <<sent>>
                  ELSE <<recordResponse(sent, latency, r)>>
  /\ UNCHANGED <<cfgIn, config, pcStart, runVars, conn, rawVars, buildVars>>

ClockNext == ClockCycle

ClockSpec == ClockInit /\ [][ClockNext]_vars

\* ------------------------------------------- claims: the latency as index

\* C32: for every latency the loop computes from two successive readings of
\* the clock, a negative one included, recordResponse either discards the
\* sample or adds one to exactly one bin whose index is in [0, limit); it
\* never indexes the histogram outside its bounds.
C32_LatencyIndexInBounds ==
  [][call'.op = "recordResponse" =>
       /\ ~call'.panicked
       /\ \/ pool'[1] = recordRequest(pool[1], RequestLen)
          \/ /\ call'.latency \in 0..(pool[1].limit - 1)
             /\ pool'[1].Latencies =
                  [pool[1].Latencies EXCEPT ![call'.latency] = @ + 1]]_vars

====
